---- MODULE Spec2Model ----
(***************************************************************************)
(* A model of the car-parking simulation of demo1: the Environment         *)
(* (src/environment.py), the Brain and its gene decoding (src/brain.py).   *)
(*                                                                         *)
(* Number representation.  The program computes in Python floats; the      *)
(* model computes in integers of fixed units:                              *)
(*   speed      in steps of 0.025 (the ACCELERATION increment), so that    *)
(*              MAX_SPEED 2.5 is 100 and MIN_TURN_SPEED 0.1 is 4;          *)
(*   cos, sin   scaled by TrigScale;                                       *)
(*   position   in 1/PosScale pixel, PosScale = 40 * TrigScale, so that    *)
(*              speed * cos is added without rounding;                     *)
(*   distances  in 1/100 pixel;                                            *)
(*   rewards    in tenths;                                                 *)
(*   gene coefficients and signals in 1/CoefScale (2^-12, exact).          *)
(* float('inf') is kept apart from the numbers: a value is a record        *)
(* [k, v] with k one of "fin", "inf", "-inf", "nan".                       *)
(***************************************************************************)
EXTENDS Integers, Sequences, FiniteSets, TLC

\* ---------------------------------------------------------------- bounds
\* The longest steering phase of one episode of the modelled driver.
MaxTurnSteps == 8
\* The most obstacles the caller registers at once.
MaxObstacles == 1

\* --------------------------------------------------- Environment constants
WIDTH == 800
HEIGHT == 600
\* speeds, in steps of 0.025
MAX_SPEED == 100
MAX_SPEED_BACKWARD == 50
ACCELERATION == 1
DECELERATION == 1
MIN_TURN_SPEED == 4
\* pygame.transform.rotate(Surface((30, 44)), 90): the car is 44 x 30 at heading 0
rectangle_width == 30
rectangle_height == 44
barrier_thickness == 4
max_episode_steps == 1000
\* the range of a sensor ray
RayMaxDistance == 150
TrigScale == 10000
PosScale == 400000

parking_spot == [left |-> 600, top |-> 200, w |-> 66, h |-> 44]

Rect(l, t, w, h) == [left |-> l, top |-> t, w |-> w, h |-> h]
RectRight(r) == r.left + r.w
RectBottom(r) == r.top + r.h

barriers ==
  << Rect(0, 0, WIDTH, barrier_thickness),
     Rect(0, 0, barrier_thickness, HEIGHT),
     Rect(0, HEIGHT - barrier_thickness, WIDTH, barrier_thickness),
     Rect(WIDTH - barrier_thickness, 0, barrier_thickness, HEIGHT) >>

initial_state ==
  [car_pos_x |-> 100 * PosScale, car_pos_y |-> 300 * PosScale, car_speed |-> 0,
   rotation |-> 0, collision_counter |-> 0, time_elapsed |-> 0]

\* ------------------------------------------------------- float('inf') values
Fin(n) == [k |-> "fin", v |-> n]
PosInf == [k |-> "inf", v |-> 0]
NegInf == [k |-> "-inf", v |-> 0]
NaN == [k |-> "nan", v |-> 0]
IsFinite(a) == a.k = "fin"

\* a < b of Python floats
ExtLt(a, b) ==
  CASE a.k = "nan" \/ b.k = "nan" -> FALSE
    [] a.k = "fin" /\ b.k = "fin" -> a.v < b.v
    [] a.k = "-inf" -> b.k # "-inf"
    [] a.k = "inf" -> FALSE
    [] OTHER -> b.k = "inf"

\* a + b of Python floats
ExtAdd(a, b) ==
  CASE a.k = "nan" \/ b.k = "nan" -> NaN
    [] a.k = "fin" /\ b.k = "fin" -> Fin(a.v + b.v)
    [] a.k = "fin" -> b
    [] b.k = "fin" -> a
    [] a.k = b.k -> a
    [] OTHER -> NaN

ExtNeg(a) ==
  CASE a.k = "fin" -> Fin(-a.v)
    [] a.k = "inf" -> NegInf
    [] a.k = "-inf" -> PosInf
    [] OTHER -> NaN

ExtSub(a, b) == ExtAdd(a, ExtNeg(b))

\* ------------------------------------------------------------- arithmetic
Abs(n) == IF n < 0 THEN -n ELSE n
Min2(a, b) == IF a < b THEN a ELSE b
Max2(a, b) == IF a > b THEN a ELSE b
\* int(x) of a float x = n / d: truncation toward zero
Trunc(n, d) == IF n >= 0 THEN n \div d ELSE -((-n) \div d)

RECURSIVE ISqrtIn(_, _, _)
ISqrtIn(n, lo, hi) ==
  IF lo >= hi THEN lo
  ELSE LET mid == (lo + hi + 1) \div 2
       IN IF mid * mid <= n THEN ISqrtIn(n, mid, hi) ELSE ISqrtIn(n, lo, mid - 1)
\* floor of the square root (math.sqrt, to the model's unit)
ISqrt(n) == ISqrtIn(n, 0, 46340)

\* math.cos / math.sin of whole degrees, scaled by TrigScale; index degree + 1
CosTable ==
  << 10000, 9998, 9994, 9986, 9976, 9962, 9945, 9925, 9903, 9877, 9848, 9816,
     9781, 9744, 9703, 9659, 9613, 9563, 9511, 9455, 9397, 9336, 9272, 9205,
     9135, 9063, 8988, 8910, 8829, 8746, 8660, 8572, 8480, 8387, 8290, 8192,
     8090, 7986, 7880, 7771, 7660, 7547, 7431, 7314, 7193, 7071, 6947, 6820,
     6691, 6561, 6428, 6293, 6157, 6018, 5878, 5736, 5592, 5446, 5299, 5150,
     5000, 4848, 4695, 4540, 4384, 4226, 4067, 3907, 3746, 3584, 3420, 3256,
     3090, 2924, 2756, 2588, 2419, 2250, 2079, 1908, 1736, 1564, 1392, 1219,
     1045, 872, 698, 523, 349, 175, 0, -175, -349, -523, -698, -872,
     -1045, -1219, -1392, -1564, -1736, -1908, -2079, -2250, -2419, -2588, -2756, -2924,
     -3090, -3256, -3420, -3584, -3746, -3907, -4067, -4226, -4384, -4540, -4695, -4848,
     -5000, -5150, -5299, -5446, -5592, -5736, -5878, -6018, -6157, -6293, -6428, -6561,
     -6691, -6820, -6947, -7071, -7193, -7314, -7431, -7547, -7660, -7771, -7880, -7986,
     -8090, -8192, -8290, -8387, -8480, -8572, -8660, -8746, -8829, -8910, -8988, -9063,
     -9135, -9205, -9272, -9336, -9397, -9455, -9511, -9563, -9613, -9659, -9703, -9744,
     -9781, -9816, -9848, -9877, -9903, -9925, -9945, -9962, -9976, -9986, -9994, -9998,
     -10000, -9998, -9994, -9986, -9976, -9962, -9945, -9925, -9903, -9877, -9848, -9816,
     -9781, -9744, -9703, -9659, -9613, -9563, -9511, -9455, -9397, -9336, -9272, -9205,
     -9135, -9063, -8988, -8910, -8829, -8746, -8660, -8572, -8480, -8387, -8290, -8192,
     -8090, -7986, -7880, -7771, -7660, -7547, -7431, -7314, -7193, -7071, -6947, -6820,
     -6691, -6561, -6428, -6293, -6157, -6018, -5878, -5736, -5592, -5446, -5299, -5150,
     -5000, -4848, -4695, -4540, -4384, -4226, -4067, -3907, -3746, -3584, -3420, -3256,
     -3090, -2924, -2756, -2588, -2419, -2250, -2079, -1908, -1736, -1564, -1392, -1219,
     -1045, -872, -698, -523, -349, -175, 0, 175, 349, 523, 698, 872,
     1045, 1219, 1392, 1564, 1736, 1908, 2079, 2250, 2419, 2588, 2756, 2924,
     3090, 3256, 3420, 3584, 3746, 3907, 4067, 4226, 4384, 4540, 4695, 4848,
     5000, 5150, 5299, 5446, 5592, 5736, 5878, 6018, 6157, 6293, 6428, 6561,
     6691, 6820, 6947, 7071, 7193, 7314, 7431, 7547, 7660, 7771, 7880, 7986,
     8090, 8192, 8290, 8387, 8480, 8572, 8660, 8746, 8829, 8910, 8988, 9063,
     9135, 9205, 9272, 9336, 9397, 9455, 9511, 9563, 9613, 9659, 9703, 9744,
     9781, 9816, 9848, 9877, 9903, 9925, 9945, 9962, 9976, 9986, 9994, 9998 >>

SinTable ==
  << 0, 175, 349, 523, 698, 872, 1045, 1219, 1392, 1564, 1736, 1908,
     2079, 2250, 2419, 2588, 2756, 2924, 3090, 3256, 3420, 3584, 3746, 3907,
     4067, 4226, 4384, 4540, 4695, 4848, 5000, 5150, 5299, 5446, 5592, 5736,
     5878, 6018, 6157, 6293, 6428, 6561, 6691, 6820, 6947, 7071, 7193, 7314,
     7431, 7547, 7660, 7771, 7880, 7986, 8090, 8192, 8290, 8387, 8480, 8572,
     8660, 8746, 8829, 8910, 8988, 9063, 9135, 9205, 9272, 9336, 9397, 9455,
     9511, 9563, 9613, 9659, 9703, 9744, 9781, 9816, 9848, 9877, 9903, 9925,
     9945, 9962, 9976, 9986, 9994, 9998, 10000, 9998, 9994, 9986, 9976, 9962,
     9945, 9925, 9903, 9877, 9848, 9816, 9781, 9744, 9703, 9659, 9613, 9563,
     9511, 9455, 9397, 9336, 9272, 9205, 9135, 9063, 8988, 8910, 8829, 8746,
     8660, 8572, 8480, 8387, 8290, 8192, 8090, 7986, 7880, 7771, 7660, 7547,
     7431, 7314, 7193, 7071, 6947, 6820, 6691, 6561, 6428, 6293, 6157, 6018,
     5878, 5736, 5592, 5446, 5299, 5150, 5000, 4848, 4695, 4540, 4384, 4226,
     4067, 3907, 3746, 3584, 3420, 3256, 3090, 2924, 2756, 2588, 2419, 2250,
     2079, 1908, 1736, 1564, 1392, 1219, 1045, 872, 698, 523, 349, 175,
     0, -175, -349, -523, -698, -872, -1045, -1219, -1392, -1564, -1736, -1908,
     -2079, -2250, -2419, -2588, -2756, -2924, -3090, -3256, -3420, -3584, -3746, -3907,
     -4067, -4226, -4384, -4540, -4695, -4848, -5000, -5150, -5299, -5446, -5592, -5736,
     -5878, -6018, -6157, -6293, -6428, -6561, -6691, -6820, -6947, -7071, -7193, -7314,
     -7431, -7547, -7660, -7771, -7880, -7986, -8090, -8192, -8290, -8387, -8480, -8572,
     -8660, -8746, -8829, -8910, -8988, -9063, -9135, -9205, -9272, -9336, -9397, -9455,
     -9511, -9563, -9613, -9659, -9703, -9744, -9781, -9816, -9848, -9877, -9903, -9925,
     -9945, -9962, -9976, -9986, -9994, -9998, -10000, -9998, -9994, -9986, -9976, -9962,
     -9945, -9925, -9903, -9877, -9848, -9816, -9781, -9744, -9703, -9659, -9613, -9563,
     -9511, -9455, -9397, -9336, -9272, -9205, -9135, -9063, -8988, -8910, -8829, -8746,
     -8660, -8572, -8480, -8387, -8290, -8192, -8090, -7986, -7880, -7771, -7660, -7547,
     -7431, -7314, -7193, -7071, -6947, -6820, -6691, -6561, -6428, -6293, -6157, -6018,
     -5878, -5736, -5592, -5446, -5299, -5150, -5000, -4848, -4695, -4540, -4384, -4226,
     -4067, -3907, -3746, -3584, -3420, -3256, -3090, -2924, -2756, -2588, -2419, -2250,
     -2079, -1908, -1736, -1564, -1392, -1219, -1045, -872, -698, -523, -349, -175 >>

RotatedWidthTable ==
  << 44, 44, 45, 45, 45, 46, 46, 47, 47, 48, 48, 48,
     49, 49, 49, 50, 50, 50, 51, 51, 51, 51, 52, 52,
     52, 52, 52, 52, 52, 53, 53, 53, 53, 53, 53, 53,
     53, 53, 53, 53, 52, 52, 52, 52, 52, 52, 52, 51,
     51, 51, 51, 51, 50, 50, 50, 49, 49, 49, 48, 48,
     47, 47, 47, 46, 46, 45, 45, 44, 44, 43, 43, 42,
     42, 41, 40, 40, 39, 39, 38, 37, 37, 36, 35, 35,
     34, 33, 32, 32, 31, 30, 30, 30, 31, 32, 32, 33,
     34, 35, 35, 36, 37, 37, 38, 39, 39, 40, 40, 41,
     42, 42, 43, 43, 44, 44, 45, 45, 46, 46, 47, 47,
     47, 48, 48, 49, 49, 49, 50, 50, 50, 51, 51, 51,
     51, 51, 52, 52, 52, 52, 52, 52, 52, 53, 53, 53,
     53, 53, 53, 53, 53, 53, 53, 53, 52, 52, 52, 52,
     52, 52, 52, 51, 51, 51, 51, 50, 50, 50, 49, 49,
     49, 48, 48, 48, 47, 47, 46, 46, 45, 45, 45, 44,
     44, 44, 45, 45, 45, 46, 46, 47, 47, 48, 48, 48,
     49, 49, 49, 50, 50, 50, 51, 51, 51, 51, 52, 52,
     52, 52, 52, 52, 52, 53, 53, 53, 53, 53, 53, 53,
     53, 53, 53, 53, 52, 52, 52, 52, 52, 52, 52, 51,
     51, 51, 51, 51, 50, 50, 50, 49, 49, 49, 48, 48,
     47, 47, 47, 46, 46, 45, 45, 44, 44, 43, 43, 42,
     42, 41, 40, 40, 39, 39, 38, 37, 37, 36, 35, 35,
     34, 33, 32, 32, 31, 30, 30, 30, 31, 32, 32, 33,
     34, 35, 35, 36, 37, 37, 38, 39, 39, 40, 40, 41,
     42, 42, 43, 43, 44, 44, 45, 45, 46, 46, 47, 47,
     47, 48, 48, 49, 49, 49, 50, 50, 50, 51, 51, 51,
     51, 51, 52, 52, 52, 52, 52, 52, 52, 53, 53, 53,
     53, 53, 53, 53, 53, 53, 53, 53, 52, 52, 52, 52,
     52, 52, 52, 51, 51, 51, 51, 50, 50, 50, 49, 49,
     49, 48, 48, 48, 47, 47, 46, 46, 45, 45, 45, 44 >>

RotatedHeightTable ==
  << 30, 30, 31, 32, 32, 33, 34, 35, 35, 36, 37, 37,
     38, 39, 39, 40, 40, 41, 42, 42, 43, 43, 44, 44,
     45, 45, 46, 46, 47, 47, 47, 48, 48, 49, 49, 49,
     50, 50, 50, 51, 51, 51, 51, 51, 52, 52, 52, 52,
     52, 52, 52, 53, 53, 53, 53, 53, 53, 53, 53, 53,
     53, 53, 52, 52, 52, 52, 52, 52, 52, 51, 51, 51,
     51, 50, 50, 50, 49, 49, 49, 48, 48, 48, 47, 47,
     46, 46, 45, 45, 45, 44, 44, 44, 45, 45, 45, 46,
     46, 47, 47, 48, 48, 48, 49, 49, 49, 50, 50, 50,
     51, 51, 51, 51, 52, 52, 52, 52, 52, 52, 52, 53,
     53, 53, 53, 53, 53, 53, 53, 53, 53, 53, 52, 52,
     52, 52, 52, 52, 52, 51, 51, 51, 51, 51, 50, 50,
     50, 49, 49, 49, 48, 48, 47, 47, 47, 46, 46, 45,
     45, 44, 44, 43, 43, 42, 42, 41, 40, 40, 39, 39,
     38, 37, 37, 36, 35, 35, 34, 33, 32, 32, 31, 30,
     30, 30, 31, 32, 32, 33, 34, 35, 35, 36, 37, 37,
     38, 39, 39, 40, 40, 41, 42, 42, 43, 43, 44, 44,
     45, 45, 46, 46, 47, 47, 47, 48, 48, 49, 49, 49,
     50, 50, 50, 51, 51, 51, 51, 51, 52, 52, 52, 52,
     52, 52, 52, 53, 53, 53, 53, 53, 53, 53, 53, 53,
     53, 53, 52, 52, 52, 52, 52, 52, 52, 51, 51, 51,
     51, 50, 50, 50, 49, 49, 49, 48, 48, 48, 47, 47,
     46, 46, 45, 45, 45, 44, 44, 44, 45, 45, 45, 46,
     46, 47, 47, 48, 48, 48, 49, 49, 49, 50, 50, 50,
     51, 51, 51, 51, 52, 52, 52, 52, 52, 52, 52, 53,
     53, 53, 53, 53, 53, 53, 53, 53, 53, 53, 52, 52,
     52, 52, 52, 52, 52, 51, 51, 51, 51, 51, 50, 50,
     50, 49, 49, 49, 48, 48, 47, 47, 47, 46, 46, 45,
     45, 44, 44, 43, 43, 42, 42, 41, 40, 40, 39, 39,
     38, 37, 37, 36, 35, 35, 34, 33, 32, 32, 31, 30 >>

Cos(deg) == CosTable[(deg % 360) + 1]
Sin(deg) == SinTable[(deg % 360) + 1]

\* ------------------------------------------------------------ pygame.Rect
\* Rect.colliderect: the two rectangles share area (touching edges do not)
CollideRect(a, b) ==
  /\ a.w # 0 /\ a.h # 0 /\ b.w # 0 /\ b.h # 0
  /\ a.left < RectRight(b) /\ b.left < RectRight(a)
  /\ a.top < RectBottom(b) /\ b.top < RectBottom(a)

\* pygame.transform.rotate(rectangle_surf, -rotation).get_rect(center = c):
\* the axis-aligned bounding box of the rotated car, centred on c
RotatedRect(cx, cy, rotation) ==
  LET w == RotatedWidthTable[(rotation % 360) + 1]
      h == RotatedHeightTable[(rotation % 360) + 1]
  IN [left |-> cx - (w \div 2), top |-> cy - (h \div 2), w |-> w, h |-> h]

\* rotated_collision_rect is None until the first _update_position
NoRect == [set |-> FALSE, r |-> Rect(0, 0, 0, 0)]
SomeRect(r) == [set |-> TRUE, r |-> r]

\* ------------------------------------------------------------- the state
VARIABLES
  current_state,           \* the car: position, speed, rotation, collision counter
  rotated_collision_rect,  \* the car's bounding box of the last _update_position
  custom_rectangles,       \* the caller's obstacles, in order of registration
  episode_finished,
  current_step,
  best_distance,
  current_fitness,
  average_distance,
  sensor_input,            \* what the last _update_sensors read; see ray_distances
  ret,                     \* what the last call returned
  driver                   \* the caller's driving of the current episode

VARIABLES
  brain,   \* the Brain the caller holds, or NoBrain
  call     \* the last call of the Brain or of its decoding, and what it gave

envVars == << current_state, rotated_collision_rect, custom_rectangles, episode_finished,
              current_step, best_distance, current_fitness, average_distance,
              sensor_input, ret, driver >>
brainVars == << brain, call >>

VARIABLES
  ga,            \* the GeneticAlgorithm the caller holds, or NoGA
  evolve_frame,  \* the locals of an evolve call in progress
  trainer,       \* the Trainer's evaluate_genome and train in progress
  game,          \* the Game: its own list of drawn obstacles, its Brain
  file           \* the text of the genome file last written

outerVars == << ga, evolve_frame, trainer, game, file >>
vars == << envVars, brainVars, outerVars >>

\* --------------------------------------------------------------- sensors
PointInsideRect(x, y, rect) ==
  /\ rect.left * PosScale <= x /\ x <= RectRight(rect) * PosScale
  /\ rect.top * PosScale <= y /\ y <= RectBottom(rect) * PosScale

\* pass i of the loop (i from 0) stops the ray: after i + 1 unit steps the point
\* is inside one of the rectangles or outside the arena
RayStops(i, x, y, dx, dy, rects) ==
  LET px == x + (i + 1) * dx
      py == y + (i + 1) * dy
  IN \/ \E k \in 1..Len(rects) : PointInsideRect(px, py, rects[k])
     \/ px < 0 \/ px > WIDTH * PosScale
     \/ py < 0 \/ py > HEIGHT * PosScale

\* The first pass that stops the ray, max_distance when none does.
\* One unit step of a ray is (cos, sin) pixel = 40 * (Cos, Sin) position units.
RayDistance(x, y, angle, rects) ==
  LET stops == { i \in 0..(RayMaxDistance - 1) :
                   RayStops(i, x, y, 40 * Cos(angle), 40 * Sin(angle), rects) }
  IN IF stops = {} THEN RayMaxDistance
     ELSE CHOOSE i \in stops : \A j \in stops : i <= j

ray_angles == << 0, 45, 90, 135, 180, 225, 270, 315 >>

\* ray_distances is [0] * 8 after construction; _update_sensors then sets it to
\* the eight distances read at the car's position and rotation among the
\* barriers and the obstacles registered at that moment.  The model keeps what
\* _update_sensors read (sensor_input) and computes the list from it.
NoSensorInput == [valid |-> FALSE, x |-> 0, y |-> 0, rotation |-> 0, rects |-> << >>]
SensorInput(state, customs) ==
  [valid |-> TRUE, x |-> state.car_pos_x, y |-> state.car_pos_y,
   rotation |-> state.rotation, rects |-> barriers \o customs]
RayDistances(input) ==
  IF ~input.valid THEN [i \in 1..8 |-> 0]
  ELSE [i \in 1..8 |->
          RayDistance(input.x, input.y, ray_angles[i] + input.rotation, input.rects)]
ray_distances == RayDistances(sensor_input)

\* --------------------------------------------------- distance to the parking
NearestOnRect(rect, x, y) ==
  << Max2(rect.left, Min2(x, RectRight(rect))), Max2(rect.top, Min2(y, RectBottom(rect))) >>

\* _distance of a corner to the parking spot, in 1/400 pixel: a quarter of
\* the distance in 1/100 pixel, so that the four sum to the average
CornerDistance(x, y) ==
  LET n == NearestOnRect(parking_spot, x, y)
  IN ISqrt(625 * ((x - n[1]) * (x - n[1]) + (y - n[2]) * (y - n[2])))

\* _update_parking_distance: the mean of the four corner distances, 1/100 pixel;
\* unchanged while rotated_collision_rect is None
UpdateParkingDistance(rect, old) ==
  IF ~rect.set THEN old
  ELSE LET r == rect.r
       IN Fin(CornerDistance(r.left, r.top) + CornerDistance(RectRight(r), r.top)
              + CornerDistance(RectRight(r), RectBottom(r))
              + CornerDistance(r.left, RectBottom(r)))

\* ------------------------------------------------------------ get_state
GetState(state, avg, input) ==
  [sensors |-> input,
   distance_to_parking |-> avg,
   collision |-> state.collision_counter > 0,
   position |-> << state.car_pos_x, state.car_pos_y >>,
   rotation |-> state.rotation,
   speed |-> state.car_speed]

\* --------------------------------------------------------- _apply_action
\* variant: the engine signal without the two caps
ApplyEngineUncapped(speed, engine_signal) ==
  IF engine_signal = 1 THEN speed + ACCELERATION
  ELSE IF engine_signal = -1 THEN speed - DECELERATION
  ELSE speed

ApplyEngine(speed, engine_signal) ==
  IF engine_signal = 1 THEN Min2(speed + ACCELERATION, MAX_SPEED)
  ELSE IF engine_signal = -1 THEN Max2(speed - DECELERATION, -MAX_SPEED_BACKWARD)
  ELSE speed

ApplyWheels(rotation, speed, wheel_signal) ==
  IF Abs(speed) >= MIN_TURN_SPEED THEN (rotation + wheel_signal) % 360 ELSE rotation

\* ------------------------------------------------------ _check_collisions
HitsBarrier(rect) == \E k \in 1..Len(barriers) : CollideRect(rect, barriers[k])
HitsObstacle(rect, customs) == \E k \in 1..Len(customs) : CollideRect(rect, customs[k])
OutOfArena(rect) ==
  \/ rect.left < 0 \/ RectRight(rect) > WIDTH
  \/ rect.top < 0 \/ RectBottom(rect) > HEIGHT

\* variant: obstacles placed by the user are not checked
CollisionDetectedNoObstacles(rect, customs) ==
  HitsBarrier(rect) \/ OutOfArena(rect)

CollisionDetected(rect, customs) ==
  HitsBarrier(rect) \/ HitsObstacle(rect, customs) \/ OutOfArena(rect)

\* the state after _check_collisions, entered with the candidate rectangle
CheckCollisions(state, rect, customs) ==
  IF CollisionDetected(rect, customs)
  THEN [state EXCEPT !.car_speed = 0, !.collision_counter = @ + 1]
  ELSE state

\* ------------------------------------------------------- _update_position
NewCarPos(state) ==
  << state.car_pos_x + state.car_speed * Cos(state.rotation),
     state.car_pos_y + state.car_speed * Sin(state.rotation) >>

CandidateRect(state) ==
  LET p == NewCarPos(state)
  IN RotatedRect(Trunc(p[1], PosScale), Trunc(p[2], PosScale), state.rotation)

UpdatePosition(state, customs) ==
  LET p == NewCarPos(state)
      rect == CandidateRect(state)
      checked == CheckCollisions(state, rect, customs)
  IN IF ~CollisionDetected(rect, customs) /\ checked.car_speed # 0
     THEN [checked EXCEPT !.car_pos_x = p[1], !.car_pos_y = p[2]]
     ELSE checked


\* variant: the wheel signal tested against the speed of the step before
SteeredOnOldSpeed(state, action) ==
  [state EXCEPT !.car_speed = ApplyEngine(state.car_speed, action.engine),
                !.rotation = ApplyWheels(state.rotation, state.car_speed, action.wheels)]

\* the car as _update_position sees it, after the engine and wheel signals
Steered(state, action) ==
  LET speed == ApplyEngine(state.car_speed, action.engine)
  IN [state EXCEPT !.car_speed = speed,
                   !.rotation = ApplyWheels(state.rotation, speed, action.wheels)]

ApplyAction(state, action, customs) == UpdatePosition(Steered(state, action), customs)

\* --------------------------------------------------- _is_parked_correctly
\* variant: the distance to 0 degrees without the wrap-around at 360
AngleDiffNoWrap(rotation) == Abs((rotation % 360) - 0)

AngleDiff(rotation) ==
  LET current_angle == rotation % 360
  IN Min2(Abs(current_angle - 0), Abs(current_angle - (0 + 360)))

FullyInside(r, spot) ==
  /\ r.left >= spot.left /\ RectRight(r) <= RectRight(spot)
  /\ r.top >= spot.top /\ RectBottom(r) <= RectBottom(spot)

AngleThreshold == 10

IsParkedCorrectly(rect, rotation) ==
  /\ rect.set /\ rect.r.w # 0 /\ rect.r.h # 0
  /\ CollideRect(parking_spot, rect.r)
  /\ FullyInside(rect.r, parking_spot)
  /\ AngleDiff(rotation) <= AngleThreshold

\* ------------------------------------------------------ _calculate_reward
\* rewards in tenths: a distance gain of d/100 pixel is worth d/10, so d tenths
CollisionPenalty(collision) == IF collision THEN Fin(-1000) ELSE Fin(0)
\* variant: the distance change is rewarded whether or not it is a new best
ApproachRewardAlways(best, current) == ExtSub(best, current)

\* variant: coming closer is not rewarded
ApproachRewardNone(best, current) == Fin(0)

ApproachReward(best, current) ==
  IF ExtLt(current, best)
  THEN ExtSub(best, current)
  ELSE Fin(0)
ParkingReward(parked) == IF parked THEN Fin(10000) ELSE Fin(0)
TimePenalty == Fin(-1)

CalculateReward(collision, current, best, parked) ==
  ExtAdd(ExtAdd(ExtAdd(CollisionPenalty(collision), ApproachReward(best, current)),
                ParkingReward(parked)),
         TimePenalty)

NewBestDistance(best, current) == IF ExtLt(current, best) THEN current ELSE best

\* ------------------------------------------------------ _check_episode_end
\* variant: the step limit is compared with > instead of >=
CheckEpisodeEndLate(collision, step, parked) ==
  collision \/ step > max_episode_steps \/ parked

\* variant: a collision does not end the episode
CheckEpisodeEndNoCollision(collision, step, parked) ==
  step >= max_episode_steps \/ parked

\* variant: no step limit
CheckEpisodeEndNoLimit(collision, step, parked) == collision \/ parked

CheckEpisodeEnd(collision, step, parked) ==
  collision \/ step >= max_episode_steps \/ parked

\* =========================================================== the Brain
\* coefficients and signals in 1/CoefScale; 100 is CoefLimit
CoefScale == 4096
CoefLimit == 409600
GenomeBits == 180
GeneBits == 10
SensorCount == 8

\* a call is "called" with its argument, then has "returned" a value or "raised"
Called(op, arg) == [op |-> op, arg |-> arg, state |-> "called", value |-> << >>]
Raised(op, arg) == [op |-> op, arg |-> arg, state |-> "raised", value |-> << >>]
Returned(op, arg, value) == [op |-> op, arg |-> arg, state |-> "returned", value |-> value]
NoCall == Called("none", << >>)

RECURSIVE Pow2(_)
Pow2(n) == IF n = 0 THEN 1 ELSE 2 * Pow2(n - 1)

RECURSIVE SumOver(_, _)
\* sum(f[i] for i in 1..n)
SumOver(f, n) == IF n = 0 THEN 0 ELSE f[n] + SumOver(f, n - 1)

Clamp(x, lo, hi) == Max2(Min2(x, hi), lo)

\* variant: the decoded value is returned without the limit of 100
BinaryToFloatUnclamped(bits) ==
  LET sign == IF bits[1] # 0 THEN -1 ELSE 1
      exponent == bits[2] * 8 + bits[3] * 4 + bits[4] * 2 + bits[5]
      mantissa32 == bits[6] * 16 + bits[7] * 8 + bits[8] * 4 + bits[9] * 2 + bits[10]
  IN sign * (32 + mantissa32) * Pow2(exponent)

\* _binary_to_float of ten bits: sign * (1 + mantissa) * 2 ** (exponent - 7),
\* in 1/4096: sign * (32 + 32 * mantissa) * 2 ** exponent
BinaryToFloat(bits) ==
  LET sign == IF bits[1] # 0 THEN -1 ELSE 1
      exponent_bits == SubSeq(bits, 2, 5)
      \* enumerate(reversed(exponent_bits)): the last bit has weight 2 ** 0
      exponent == SumOver([i \in 1..4 |-> exponent_bits[5 - i] * Pow2(i - 1)], 4)
      mantissa_bits == SubSeq(bits, 6, 10)
      \* bit i (from 0) has weight 2 ** -(i + 1), which is 2 ** (4 - i) / 32
      mantissa32 == SumOver([i \in 1..5 |-> mantissa_bits[i] * Pow2(5 - i)], 5)
      result == sign * (32 + mantissa32) * Pow2(exponent)
  IN Max2(Min2(result, CoefLimit), -CoefLimit)

BinaryToFloatRaises(bits) == Len(bits) # GeneBits

\* _bits_to_coefficients: the chunks bits[i:i + 10] for i in range(0, len(bits), 10)
CoefChunks(bits) ==
  [k \in 1..((Len(bits) + GeneBits - 1) \div GeneBits) |->
     SubSeq(bits, GeneBits * (k - 1) + 1, Min2(GeneBits * k, Len(bits)))]

\* variant: anything but ninety bits is refused
BitsToCoefficientsRaisesUnlessNinety(bits) == Len(bits) # 90

BitsToCoefficientsRaises(bits) ==
  \E k \in DOMAIN CoefChunks(bits) : BinaryToFloatRaises(CoefChunks(bits)[k])

BitsToCoefficients(bits) ==
  [k \in DOMAIN CoefChunks(bits) |-> BinaryToFloat(CoefChunks(bits)[k])]

\* Brain.__init__
NoBrain == [made |-> FALSE, genome |-> << >>, engine_coefficients |-> << >>,
            wheel_coefficients |-> << >>]

\* variant: no length check in the constructor, only the decoder's
BrainRaisesInDecoderOnly(genome) == Len(genome) % GeneBits # 0

BrainRaises(genome) == Len(genome) # GenomeBits

MakeBrain(genome) ==
  [made |-> TRUE, genome |-> genome,
   \* genome[:90] and genome[90:]
   engine_coefficients |-> BitsToCoefficients(SubSeq(genome, 1, Min2(90, Len(genome)))),
   wheel_coefficients |-> BitsToCoefficients(SubSeq(genome, 91, Len(genome)))]

\* 1 / (1 + math.exp(-signal)) in 1/10000, read off a table of the logistic at
\* the eighths of -8 .. 8 and interpolated linearly between them
LogisticTable ==
  << 3, 4, 4, 5, 6, 6, 7, 8, 9, 10, 12, 13,
     15, 17, 19, 22, 25, 28, 32, 36, 41, 46, 52, 59,
     67, 76, 86, 97, 110, 124, 141, 159, 180, 203, 230, 260,
     293, 331, 373, 421, 474, 534, 601, 675, 759, 851, 953, 1067,
     1192, 1330, 1480, 1645, 1824, 2018, 2227, 2451, 2689, 2942, 3208, 3486,
     3775, 4073, 4378, 4688, 5000, 5312, 5622, 5927, 6225, 6514, 6792, 7058,
     7311, 7549, 7773, 7982, 8176, 8355, 8520, 8670, 8808, 8933, 9047, 9149,
     9241, 9325, 9399, 9466, 9526, 9579, 9627, 9669, 9707, 9740, 9770, 9797,
     9820, 9841, 9859, 9876, 9890, 9903, 9914, 9924, 9933, 9941, 9948, 9954,
     9959, 9964, 9968, 9972, 9975, 9978, 9981, 9983, 9985, 9987, 9988, 9990,
     9991, 9992, 9993, 9994, 9994, 9995, 9996, 9996, 9997 >>

Logistic(signal) ==
  LET lo == -8 * CoefScale
      cell == CoefScale \div 8
  IN IF signal <= lo THEN LogisticTable[1]
     ELSE IF signal >= -lo THEN LogisticTable[129]
     ELSE LET k == (signal - lo) \div cell
              f == (signal - lo) % cell
          IN LogisticTable[k + 1]
             + ((LogisticTable[k + 2] - LogisticTable[k + 1]) * f) \div cell

\* variant: the upper threshold is 0.5
SignalToActionHalf(signal) ==
  LET clamped == Max2(Min2(signal, 500 * CoefScale), -500 * CoefScale)
      normalized == Logistic(clamped)
  IN IF normalized < 3300 THEN -1
     ELSE IF normalized > 5000 THEN 1
     ELSE 0

\* _signal_to_action; math.exp cannot overflow on a signal within -500 .. 500,
\* so the except branch is never taken
SignalToAction(signal) ==
  LET clamped == Max2(Min2(signal, 500 * CoefScale), -500 * CoefScale)
      normalized == Logistic(clamped)
  IN IF normalized < 3300 THEN -1
     ELSE IF normalized > 6600 THEN 1
     ELSE 0

\* the signal of one channel: sum(c * s) over the first eight coefficients and
\* the clamped sensors, plus the ninth coefficient, clamped to -100 .. 100
ChannelSignal(coefficients, sensors) ==
  LET normalized == [i \in 1..Len(sensors) |-> Max2(Min2(sensors[i], 100), 0)]
      \* zip stops at the shorter of coefficients[:-1] and sensors
      n == Min2(Len(coefficients) - 1, Len(sensors))
      signal == SumOver([i \in 1..n |-> coefficients[i] * normalized[i]], n)
                + coefficients[Len(coefficients)]
  IN Max2(Min2(signal, CoefLimit), -CoefLimit)

MakeDecisionRaises(sensors) == Len(sensors) # SensorCount

MakeDecision(b, sensors) ==
  [engine |-> SignalToAction(ChannelSignal(b.engine_coefficients, sensors)),
   wheels |-> SignalToAction(ChannelSignal(b.wheel_coefficients, sensors))]

\* ------------------------------------------------------------ the caller
\* step takes {'engine': e, 'wheels': w} with e, w in -1, 0, 1
Actions == [engine : {-1, 0, 1}, wheels : {-1, 0, 1}]

\* add_custom_rectangle takes a rectangle of the car's size (30 x 44) centred
\* on a point of the arena: here a point ahead of the start position
ObstacleCandidates ==
  { Rect(200 - rectangle_width \div 2, 300 - rectangle_height \div 2,
         rectangle_width, rectangle_height) }

\* ------------------------------------------------ what is not yet constructed
NoGA == [made |-> FALSE, population_size |-> 0, genome_length |-> 0, elite_size |-> 0,
         tournament_size |-> 0, population |-> << >>, generation |-> 0,
         best_fitness |-> NegInf, best_genome |-> << >>, has_best |-> FALSE]
\* old_population is the population as it was when evolve was called;
\* old_objects is what those same list objects hold now
NoFrame == [running |-> FALSE, fitness_scores |-> << >>, old_population |-> << >>,
            old_objects |-> << >>, normalized_fitness |-> << >>, new_population |-> << >>]
NoTrainer == [made |-> FALSE, pc |-> "none", genome |-> << >>, total_reward |-> Fin(0),
              step |-> 0, scored |-> << >>,
              \* train: where it is, its argument and its locals
              train_pc |-> "none", generations |-> 0, generation |-> 0, member |-> 0,
              fitness_scores |-> << >>, best_fitness_overall |-> NegInf,
              best_fitness_current |-> NegInf]
NoGame == [made |-> FALSE, custom_rectangles |-> << >>, frames |-> 0]
NoFile == [written |-> FALSE, text |-> << >>, genome |-> << >>]

OuterIdle ==
  /\ ga = NoGA /\ evolve_frame = NoFrame
  /\ trainer = NoTrainer /\ game = NoGame /\ file = NoFile

\* The driving of one episode: the first step chooses the engine and the wheel
\* signal; the engine signal is then held, and the wheel signal is held for at
\* most MaxTurnSteps effective turns, or set to 0 earlier, and stays 0 after.
\* A finished episode takes every action.
NoDriver == [started |-> FALSE, engine |-> 0, wheels |-> 0, turned |-> 0]

DriverAllows(action) ==
  \/ episode_finished
  \/ ~driver.started
  \/ /\ action.engine = driver.engine
     /\ \/ action.wheels = 0
        \/ action.wheels = driver.wheels /\ driver.turned < MaxTurnSteps

DriverNext(action) ==
  IF episode_finished THEN driver
  ELSE IF action.wheels = 0
  THEN [started |-> TRUE, engine |-> action.engine, wheels |-> 0, turned |-> 0]
  ELSE [started |-> TRUE, engine |-> action.engine, wheels |-> action.wheels,
        turned |-> driver.turned
                   + (IF Steered(current_state, action).rotation # current_state.rotation
                      THEN 1 ELSE 0)]

\* ------------------------------------------------------------- __init__
Init ==
  /\ current_state = initial_state
  /\ rotated_collision_rect = NoRect
  /\ custom_rectangles = << >>
  /\ episode_finished = FALSE
  /\ current_step = 0
  /\ best_distance = PosInf
  /\ current_fitness = Fin(0)
  /\ average_distance = PosInf
  /\ sensor_input = NoSensorInput
  /\ ret = [op |-> "init", state |-> GetState(initial_state, PosInf, NoSensorInput),
            reward |-> Fin(0), done |-> FALSE]
  /\ driver = NoDriver
  /\ brain = NoBrain
  /\ call = NoCall
  /\ OuterIdle

\* variant: reset that leaves the step counter alone
ResetKeepsStep ==
  LET input == SensorInput(initial_state, custom_rectangles)
      avg == UpdateParkingDistance(rotated_collision_rect, average_distance)
  IN /\ current_state' = initial_state
     /\ episode_finished' = FALSE
     /\ best_distance' = PosInf
     /\ current_fitness' = Fin(0)
     /\ sensor_input' = input
     /\ average_distance' = avg
     /\ ret' = [op |-> "reset", state |-> GetState(initial_state, avg, input),
                reward |-> Fin(0), done |-> FALSE]
     /\ driver' = NoDriver
     /\ UNCHANGED << current_step, rotated_collision_rect, custom_rectangles,
                     brainVars, outerVars >>

\* variant: reset that leaves the best-distance record alone
ResetKeepsBest ==
  LET input == SensorInput(initial_state, custom_rectangles)
      avg == UpdateParkingDistance(rotated_collision_rect, average_distance)
  IN /\ current_state' = initial_state
     /\ episode_finished' = FALSE
     /\ current_step' = 0
     /\ current_fitness' = Fin(0)
     /\ sensor_input' = input
     /\ average_distance' = avg
     /\ ret' = [op |-> "reset", state |-> GetState(initial_state, avg, input),
                reward |-> Fin(0), done |-> FALSE]
     /\ UNCHANGED << best_distance, rotated_collision_rect, custom_rectangles >>

\* ---------------------------------------------------------------- reset
\* what reset does to the Environment
ResetEnvironment ==
  LET input == SensorInput(initial_state, custom_rectangles)
      avg == UpdateParkingDistance(rotated_collision_rect, average_distance)
  IN /\ current_state' = initial_state
     /\ episode_finished' = FALSE
     /\ current_step' = 0
     /\ best_distance' = PosInf
     /\ current_fitness' = Fin(0)
     /\ sensor_input' = input
     /\ average_distance' = avg
     /\ ret' = [op |-> "reset", state |-> GetState(initial_state, avg, input),
                reward |-> Fin(0), done |-> FALSE]
     /\ UNCHANGED << rotated_collision_rect, custom_rectangles >>

\* reset called by the driver of an episode
Reset ==
  /\ ResetEnvironment
  /\ driver' = NoDriver
  /\ UNCHANGED << brainVars, outerVars >>

\* variant: a step on a finished episode still charges the time penalty
StepFinishedCharged ==
  /\ ret' = [op |-> "step",
             state |-> GetState(current_state, average_distance, sensor_input),
             reward |-> TimePenalty, done |-> TRUE]
  /\ UNCHANGED << current_state, rotated_collision_rect, custom_rectangles,
                  episode_finished, current_step, best_distance, current_fitness,
                  average_distance, sensor_input >>

\* ----------------------------------------------------------------- step
StepFinished ==
  /\ ret' = [op |-> "step",
             state |-> GetState(current_state, average_distance, sensor_input),
             reward |-> Fin(0), done |-> TRUE]
  /\ UNCHANGED << current_state, rotated_collision_rect, custom_rectangles,
                  episode_finished, current_step, best_distance, current_fitness,
                  average_distance, sensor_input >>

StepRunning(action) ==
  /\ rotated_collision_rect' = SomeRect(CandidateRect(Steered(current_state, action)))
  /\ current_state' = ApplyAction(current_state, action, custom_rectangles)
  /\ current_step' = current_step + 1
  /\ sensor_input' = SensorInput(current_state', custom_rectangles)
  /\ average_distance' = UpdateParkingDistance(rotated_collision_rect', average_distance)
  /\ LET new_state == GetState(current_state', average_distance', sensor_input')
         parked == IsParkedCorrectly(rotated_collision_rect', current_state'.rotation)
     IN /\ best_distance' = NewBestDistance(best_distance, new_state.distance_to_parking)
        /\ episode_finished' = CheckEpisodeEnd(new_state.collision, current_step', parked)
        /\ ret' = [op |-> "step", state |-> new_state,
                   reward |-> CalculateReward(new_state.collision,
                                              new_state.distance_to_parking,
                                              best_distance, parked),
                   done |-> episode_finished']
        /\ current_fitness' = ExtAdd(current_fitness, ret'.reward)
  /\ UNCHANGED custom_rectangles

Step ==
  \E action \in Actions :
    /\ DriverAllows(action)
    /\ driver' = DriverNext(action)
    /\ IF episode_finished THEN StepFinished ELSE StepRunning(action)
    /\ UNCHANGED << brainVars, outerVars >>

\* ------------------------------ add_custom_rectangle, remove_custom_rectangle
RECURSIVE RemoveFirst(_, _)
RemoveFirst(s, x) ==
  IF s = << >> THEN << >>
  ELSE IF Head(s) = x THEN Tail(s)
  ELSE << Head(s) >> \o RemoveFirst(Tail(s), x)

AddCustomRectangle ==
  \E rect \in ObstacleCandidates :
    /\ current_step = 0 \/ episode_finished
    /\ Len(custom_rectangles) < MaxObstacles
    /\ \A k \in 1..Len(custom_rectangles) : custom_rectangles[k] # rect
    /\ custom_rectangles' = Append(custom_rectangles, rect)
    /\ UNCHANGED << current_state, rotated_collision_rect, episode_finished,
                    current_step, best_distance, current_fitness, average_distance,
                    sensor_input, ret, driver, brainVars, outerVars >>

RemoveCustomRectangle ==
  \E rect \in ObstacleCandidates :
    /\ current_step = 0 \/ episode_finished
    /\ custom_rectangles' = RemoveFirst(custom_rectangles, rect)
    /\ UNCHANGED << current_state, rotated_collision_rect, episode_finished,
                    current_step, best_distance, current_fitness, average_distance,
                    sensor_input, ret, driver, brainVars, outerVars >>

Next == Step \/ Reset \/ AddCustomRectangle \/ RemoveCustomRectangle

Spec == Init /\ [][Next]_vars

\* ------------------------------------------------------- get_render_data
RenderData ==
  [car_pos |-> << current_state.car_pos_x, current_state.car_pos_y >>,
   rotation |-> current_state.rotation,
   collision_count |-> current_state.collision_counter,
   time |-> current_state.time_elapsed,
   ray_distances |-> sensor_input,
   distance_to_parking |-> average_distance,
   rectangles |-> custom_rectangles,
   is_parked |-> IsParkedCorrectly(rotated_collision_rect, current_state.rotation)]

GetRenderData ==
  /\ ret' = [op |-> "render", data |-> RenderData]
  /\ UNCHANGED << current_state, rotated_collision_rect, custom_rectangles,
                  episode_finished, current_step, best_distance, current_fitness,
                  average_distance, sensor_input, driver, brainVars, outerVars >>

\* =============================================== the parking predicate alone
\* The car stands at a whole-pixel centre in or about the parking spot, at one
\* of the headings below, as _update_position leaves it there; get_render_data
\* then reports is_parked.
MaxPoseStep == 5
PoseXs == { 600 + 4 * i : i \in 0..(3 * MaxPoseStep + 2) }
PoseYs == { 200 + 4 * i : i \in 0..(2 * MaxPoseStep + 1) }
PoseRotations == { 0, 5, 10, 11, 15, 90, 180, 270, 345, 349, 350, 355, 359 }

InitParking ==
  \E x \in PoseXs, y \in PoseYs, rotation \in PoseRotations :
    /\ current_state = [initial_state EXCEPT !.car_pos_x = x * PosScale,
                                             !.car_pos_y = y * PosScale,
                                             !.rotation = rotation]
    /\ rotated_collision_rect = SomeRect(RotatedRect(x, y, rotation))
    /\ custom_rectangles = << >>
    /\ episode_finished = FALSE
    /\ current_step = 0
    /\ best_distance = PosInf
    /\ current_fitness = Fin(0)
    /\ average_distance = PosInf
    /\ sensor_input = NoSensorInput
    /\ ret = [op |-> "init", state |-> GetState(current_state, PosInf, NoSensorInput),
              reward |-> Fin(0), done |-> FALSE]
    /\ driver = NoDriver
    /\ brain = NoBrain
    /\ call = NoCall
    /\ OuterIdle

NextParking == GetRenderData

SpecParking == InitParking /\ [][NextParking]_vars

\* ==================================================== the gene decoding alone
\* The longest bit sequence handed to _binary_to_float directly.
MaxDecodeLen == 11
\* Bit sequences of any length by pattern: pattern 0 is all 0, pattern 1 all 1.
MaxPattern == 5
PatternBit(p, i) ==
  IF p = 0 THEN 0
  ELSE IF p = 1 THEN 1
  ELSE ((i * p) \div 3 + i \div p + (i * i) \div 7) % 2
BitSeq(p, len) == [i \in 1..len |-> PatternBit(p, i)]

DecodeInputs == UNION { [1..n -> {0, 1}] : n \in 0..MaxDecodeLen }
VectorLengths == { 0, 5, 9, 10, 11, 80, 85, 89, 90, 91, 95, 100 }
VectorInputs == { BitSeq(p, len) : p \in 0..MaxPattern, len \in VectorLengths }

\* the environment as constructed, and one decoding call about to be made
InitCodec ==
  /\ current_state = initial_state
  /\ rotated_collision_rect = NoRect
  /\ custom_rectangles = << >>
  /\ episode_finished = FALSE
  /\ current_step = 0
  /\ best_distance = PosInf
  /\ current_fitness = Fin(0)
  /\ average_distance = PosInf
  /\ sensor_input = NoSensorInput
  /\ ret = [op |-> "init", state |-> GetState(initial_state, PosInf, NoSensorInput),
            reward |-> Fin(0), done |-> FALSE]
  /\ driver = NoDriver
  /\ OuterIdle
  /\ brain = NoBrain
  /\ call \in { Called("_binary_to_float", bits) : bits \in DecodeInputs }
              \cup { Called("_bits_to_coefficients", bits) : bits \in VectorInputs }

BinaryToFloatCall ==
  /\ call.op = "_binary_to_float" /\ call.state = "called"
  /\ call' = IF BinaryToFloatRaises(call.arg)
             THEN Raised(call.op, call.arg)
             ELSE Returned(call.op, call.arg, BinaryToFloat(call.arg))
  /\ UNCHANGED << envVars, brain, outerVars >>

BitsToCoefficientsCall ==
  /\ call.op = "_bits_to_coefficients" /\ call.state = "called"
  /\ call' = IF BitsToCoefficientsRaises(call.arg)
             THEN Raised(call.op, call.arg)
             ELSE Returned(call.op, call.arg, BitsToCoefficients(call.arg))
  /\ UNCHANGED << envVars, brain, outerVars >>

NextCodec == BinaryToFloatCall \/ BitsToCoefficientsCall

SpecCodec == InitCodec /\ [][NextCodec]_vars

\* ============================================================ the Brain alone
GenomeLengths == { 0, 10, 90, 170, 179, 180, 181, 190, 360 }
GenomeInputs == { BitSeq(p, len) : p \in 0..MaxPattern, len \in GenomeLengths }

SensorLevels == { -20, 0, 1, 3, 10, 40, 100, 150 }
SensorInputs ==
  { [i \in 1..n |-> IF i % 2 = 0 THEN a ELSE b] :
      a \in SensorLevels, b \in SensorLevels, n \in {7, 8, 9} }

\* the environment as constructed, and Brain(genome) about to be called
InitBrain ==
  /\ current_state = initial_state
  /\ rotated_collision_rect = NoRect
  /\ custom_rectangles = << >>
  /\ episode_finished = FALSE
  /\ current_step = 0
  /\ best_distance = PosInf
  /\ current_fitness = Fin(0)
  /\ average_distance = PosInf
  /\ sensor_input = NoSensorInput
  /\ ret = [op |-> "init", state |-> GetState(initial_state, PosInf, NoSensorInput),
            reward |-> Fin(0), done |-> FALSE]
  /\ driver = NoDriver
  /\ OuterIdle
  /\ brain = NoBrain
  /\ call \in { Called("Brain", genome) : genome \in GenomeInputs }

\* brain = Brain(genome): a ValueError leaves the caller without a Brain
NewBrain ==
  /\ call.op = "Brain" /\ call.state = "called"
  /\ IF BrainRaises(call.arg)
     THEN /\ call' = Raised(call.op, call.arg)
          /\ brain' = brain
     ELSE /\ call' = Returned(call.op, call.arg, << >>)
          /\ brain' = MakeBrain(call.arg)
  /\ UNCHANGED << envVars, outerVars >>

MakeDecisionCall ==
  \E sensors \in SensorInputs :
    /\ brain.made
    /\ call' = IF MakeDecisionRaises(sensors)
               THEN Raised("make_decision", sensors)
               ELSE Returned("make_decision", sensors, MakeDecision(brain, sensors))
    /\ UNCHANGED << envVars, brain, outerVars >>

NextBrain == NewBrain \/ MakeDecisionCall

SpecBrain == InitBrain /\ [][NextBrain]_vars

\* ================================================= the GeneticAlgorithm alone
\* A normalized fitness is a float: the quotient n / d of two integers, or what
\* inf / inf gives.
Quotient(n, d) == [k |-> "fin", n |-> n, d |-> d]
\* a > b on floats: false whenever one side is nan
QuotientGt(a, b) == a.k = "fin" /\ b.k = "fin" /\ a.n * b.d > b.n * a.d

\* min(fitness_scores), max(fitness_scores): the first element, replaced by each
\* later one that compares below (above) it
RECURSIVE ExtMin(_)
ExtMin(scores) ==
  IF Len(scores) = 1 THEN scores[1]
  ELSE LET rest == ExtMin(SubSeq(scores, 1, Len(scores) - 1))
       IN IF ExtLt(scores[Len(scores)], rest) THEN scores[Len(scores)] ELSE rest
RECURSIVE ExtMax(_)
ExtMax(scores) ==
  IF Len(scores) = 1 THEN scores[1]
  ELSE LET rest == ExtMax(SubSeq(scores, 1, Len(scores) - 1))
       IN IF ExtLt(rest, scores[Len(scores)]) THEN scores[Len(scores)] ELSE rest

\* (f - min_fitness) / (max_fitness - min_fitness)
NormalizeOne(f, lo, hi) ==
  LET above == ExtSub(f, lo)
      span == ExtSub(hi, lo)
  IN IF above.k = "fin" /\ span.k = "fin" THEN Quotient(above.v, span.v)
     ELSE IF above.k = "fin" /\ span.k = "inf" THEN Quotient(0, 1)
     ELSE [k |-> "nan", n |-> 0, d |-> 1]

\* evolve, the normalization
NormalizedFitness(scores) ==
  LET min_fitness == ExtMin(scores)
      max_fitness == ExtMax(scores)
  IN IF max_fitness # min_fitness
     THEN [i \in 1..Len(scores) |-> NormalizeOne(scores[i], min_fitness, max_fitness)]
     ELSE [i \in 1..Len(scores) |-> Quotient(1, Len(scores))]

\* variant: a descending sort that puts the higher index first among equal scores
RECURSIVE SortedTiesReversed(_, _)
SortedTiesReversed(scores, left) ==
  IF left = {} THEN << >>
  ELSE LET top == CHOOSE i \in left :
                    \A j \in left : \/ ExtLt(scores[j], scores[i])
                                    \/ (~ExtLt(scores[i], scores[j]) /\ i >= j)
       IN << top >> \o SortedTiesReversed(scores, left \ {top})

\* sorted(range(len(fitness_scores)), key=..., reverse=True): a stable sort, so
\* of equal scores the lower index comes first. Indices here count from 1.
RECURSIVE SortedDescending(_, _)
SortedDescending(scores, left) ==
  IF left = {} THEN << >>
  ELSE LET top == CHOOSE i \in left :
                    \A j \in left : \/ ExtLt(scores[j], scores[i])
                                    \/ (~ExtLt(scores[i], scores[j]) /\ i <= j)
       IN << top >> \o SortedDescending(scores, left \ {top})

EliteIndices(scores, elite_size) ==
  LET order == SortedDescending(scores, 1..Len(scores))
  IN SubSeq(order, 1, Min2(elite_size, Len(order)))

\* _select_parent: random.sample raises when the sample is larger than the
\* list, and max raises on an empty sample
SelectParentRaises(scores, tournament_size) ==
  tournament_size > Len(scores) \/ tournament_size <= 0

\* max(tournament, key=...): the first of the sample, replaced by each later
\* one whose fitness compares above it
RECURSIVE TournamentWinner(_, _)
TournamentWinner(sample, scores) ==
  IF Len(sample) = 1 THEN sample[1]
  ELSE LET rest == TournamentWinner(SubSeq(sample, 1, Len(sample) - 1), scores)
           last == sample[Len(sample)]
       IN IF QuotientGt(scores[last], scores[rest]) THEN last ELSE rest

\* _crossover with the two points drawn, 0 <= point1 < point2 < len(parent1)
CrossoverRaises(parent1, parent2) == Len(parent1) # Len(parent2) \/ Len(parent1) < 2

\* variant: the second child is spliced like the first
CrossoverSameChild(parent1, parent2, point1, point2) ==
  << SubSeq(parent1, 1, point1) \o SubSeq(parent2, point1 + 1, point2)
       \o SubSeq(parent1, point2 + 1, Len(parent1)),
     SubSeq(parent1, 1, point1) \o SubSeq(parent2, point1 + 1, point2)
       \o SubSeq(parent1, point2 + 1, Len(parent1)) >>

Crossover(parent1, parent2, point1, point2) ==
  << SubSeq(parent1, 1, point1) \o SubSeq(parent2, point1 + 1, point2)
       \o SubSeq(parent1, point2 + 1, Len(parent1)),
     SubSeq(parent2, 1, point1) \o SubSeq(parent1, point1 + 1, point2)
       \o SubSeq(parent2, point2 + 1, Len(parent2)) >>

\* _mutate with at most one position hit: bit i (from 0) is inverted, its left
\* neighbour too when i > 0 and the second draw says so, its right neighbour
\* when i < len - 1 and the third draw says so
Mutate(genome, m) ==
  IF ~m.hit THEN genome
  ELSE [j \in 1..Len(genome) |->
          IF \/ j = m.i + 1
             \/ (j = m.i /\ m.i > 0 /\ m.left)
             \/ (j = m.i + 2 /\ m.i < Len(genome) - 1 /\ m.right)
          THEN 1 - genome[j] ELSE genome[j]]

\* GeneticAlgorithm.__init__ with the population as drawn
MakeGA(config, population) ==
  [made |-> TRUE, population_size |-> config.population_size,
   genome_length |-> config.genome_length, elite_size |-> config.elite_size,
   tournament_size |-> config.tournament_size, population |-> population,
   generation |-> 0, best_fitness |-> NegInf, best_genome |-> << >>,
   has_best |-> FALSE]

\* tournament_size when the caller gives none
DefaultTournamentSize == 5
\* the genome length of the small populations
SmallGenomeLength == 4

\* The constructions tried: three genomes of SmallGenomeLength bits with every
\* elite size and tournaments of two; two such genomes with the default
\* tournament; and four genomes of 180 bits with one elite and the default
\* tournament.
GAConfigs ==
  { [population_size |-> 3, genome_length |-> SmallGenomeLength, elite_size |-> e,
     tournament_size |-> 2] : e \in 0..3 }
  \cup { [population_size |-> 2, genome_length |-> SmallGenomeLength, elite_size |-> 1,
          tournament_size |-> DefaultTournamentSize] }
  \cup { [population_size |-> 4, genome_length |-> GenomeBits, elite_size |-> 1,
          tournament_size |-> DefaultTournamentSize] }

\* _initialize_population: random bits; the populations tried are all-zero,
\* all-one and two with the members different
Populations(config) ==
  { [i \in 1..config.population_size |->
       BitSeq((base + (i - 1) * stride) % (MaxPattern + 1), config.genome_length)] :
      base \in {0, 1}, stride \in {0, 1} }

\* the score lists tried for n members: rising, falling, all equal, all inf
\* (what evaluate_genome gives), one inf among finite ones, and ties
ScoreVectors(n) ==
  { [i \in 1..n |-> Fin(i)], [i \in 1..n |-> Fin(n + 1 - i)], [i \in 1..n |-> Fin(2)],
    [i \in 1..n |-> PosInf], [i \in 1..n |-> IF i = 2 THEN PosInf ELSE Fin(i)],
    [i \in 1..n |-> Fin((i + 1) \div 2)] }

\* random.sample(list(enumerate(fitness_scores)), tournament_size): the
\* indices (from 1) of distinct members, in the order drawn
Samples(n, size) ==
  { s \in [1..size -> 1..n] : \A a, b \in 1..size : a # b => s[a] # s[b] }

\* the environment as constructed, and GeneticAlgorithm(...) about to be called
InitGA ==
  /\ current_state = initial_state
  /\ rotated_collision_rect = NoRect
  /\ custom_rectangles = << >>
  /\ episode_finished = FALSE
  /\ current_step = 0
  /\ best_distance = PosInf
  /\ current_fitness = Fin(0)
  /\ average_distance = PosInf
  /\ sensor_input = NoSensorInput
  /\ ret = [op |-> "init", state |-> GetState(initial_state, PosInf, NoSensorInput),
            reward |-> Fin(0), done |-> FALSE]
  /\ driver = NoDriver
  /\ brain = NoBrain
  /\ OuterIdle
  /\ call \in { Called("GeneticAlgorithm", config) : config \in GAConfigs }

NewGA ==
  /\ call.op = "GeneticAlgorithm" /\ call.state = "called"
  /\ \E population \in Populations(call.arg) :
       ga' = MakeGA(call.arg, population)
  /\ call' = Returned(call.op, call.arg, << >>)
  /\ UNCHANGED << envVars, brain, evolve_frame, trainer, game, file >>

\* The list objects of _crossover at its return: the two parents, which the
\* slices only read, and the two children, which the concatenations build
\* variant: the first child is written into the first parent
CrossoverInPlace(parent1, parent2, point1, point2) ==
  [parent1 |-> Crossover(parent1, parent2, point1, point2)[1], parent2 |-> parent2,
   children |-> Crossover(parent1, parent2, point1, point2)]

CrossoverObjects(parent1, parent2, point1, point2) ==
  [parent1 |-> parent1, parent2 |-> parent2,
   children |-> Crossover(parent1, parent2, point1, point2)]

\* evolve up to its loop: the normalization and the elite
EvolveFrame(fitness_scores) ==
  [running |-> TRUE, fitness_scores |-> fitness_scores,
   old_population |-> ga.population,
   old_objects |-> ga.population,
   normalized_fitness |-> NormalizedFitness(fitness_scores),
   new_population |->
     [k \in 1..Len(EliteIndices(fitness_scores, ga.elite_size)) |->
        ga.population[EliteIndices(fitness_scores, ga.elite_size)[k]]]]

\* variant: the generation is counted when evolve is entered
EvolveBeginCounts ==
  /\ ga.made /\ evolve_frame = NoFrame /\ call.state # "called"
  /\ \E fitness_scores \in ScoreVectors(ga.population_size) \cup { << >> } :
       IF fitness_scores = << >>
       THEN /\ evolve_frame' = [NoFrame EXCEPT !.old_population = ga.population,
                                               !.old_objects = ga.population]
            /\ call' = Raised("evolve", fitness_scores)
       ELSE /\ evolve_frame' = EvolveFrame(fitness_scores)
            /\ call' = [op |-> "evolve", arg |-> fitness_scores, state |-> "running",
                        value |-> << >>]
  /\ ga' = [ga EXCEPT !.generation = @ + 1]
  /\ UNCHANGED << envVars, brain, trainer, game, file >>

\* a caller's evolve(fitness_scores), with one score per member or with none:
\* min() of an empty list raises before anything else is done
EvolveBegin ==
  /\ ga.made /\ evolve_frame = NoFrame /\ call.state # "called"
  /\ \E fitness_scores \in ScoreVectors(ga.population_size) \cup { << >> } :
       IF fitness_scores = << >>
       THEN /\ evolve_frame' = [NoFrame EXCEPT !.old_population = ga.population,
                                               !.old_objects = ga.population]
            /\ call' = Raised("evolve", fitness_scores)
       ELSE /\ evolve_frame' = EvolveFrame(fitness_scores)
            /\ call' = [op |-> "evolve", arg |-> fitness_scores, state |-> "running",
                        value |-> << >>]
  /\ UNCHANGED << envVars, brain, ga, trainer, game, file >>

\* One pass of evolve's while loop. The crossover points tried are (0, 1) and
\* (1, len - 1); the mutations tried are none, and the first bit hit together
\* with its right neighbour.
EvolveBreed ==
  /\ evolve_frame.running
  /\ Len(evolve_frame.new_population) < ga.population_size
  /\ IF SelectParentRaises(evolve_frame.normalized_fitness, ga.tournament_size)
     THEN /\ call' = Raised("evolve", call.arg)
          /\ evolve_frame' = [evolve_frame EXCEPT !.running = FALSE]
     ELSE \E sample1, sample2 \in Samples(ga.population_size, ga.tournament_size),
             points \in { << 0, 1 >>, << 1, ga.genome_length - 1 >> },
             m1, m2 \in { [hit |-> FALSE, i |-> 0, left |-> FALSE, right |-> FALSE],
                          [hit |-> TRUE, i |-> 0, left |-> FALSE, right |-> TRUE] } :
            LET winner1 == TournamentWinner(sample1, evolve_frame.normalized_fitness)
                winner2 == TournamentWinner(sample2, evolve_frame.normalized_fitness)
                parent1 == ga.population[winner1]
                parent2 == ga.population[winner2]
            IN IF CrossoverRaises(parent1, parent2)
               THEN /\ call' = Raised("evolve", call.arg)
                    /\ evolve_frame' = [evolve_frame EXCEPT !.running = FALSE]
               ELSE LET crossed == CrossoverObjects(parent1, parent2, points[1], points[2])
                        with1 == Append(evolve_frame.new_population,
                                        Mutate(crossed.children[1], m1))
                        with2 == IF Len(with1) < ga.population_size
                                 THEN Append(with1, Mutate(crossed.children[2], m2))
                                 ELSE with1
                    IN /\ evolve_frame' =
                            [evolve_frame EXCEPT
                               !.new_population = with2,
                               !.old_objects = [@ EXCEPT ![winner1] = crossed.parent1,
                                                         ![winner2] = crossed.parent2]]
                       /\ call' = call
  /\ UNCHANGED << envVars, brain, ga, trainer, game, file >>

\* evolve after its loop
EvolveEnd ==
  /\ evolve_frame.running
  /\ Len(evolve_frame.new_population) >= ga.population_size
  /\ ga' = [ga EXCEPT !.population = evolve_frame.new_population,
                      !.generation = @ + 1]
  /\ call' = Returned("evolve", call.arg,
                      [population |-> ga'.population, generation |-> ga'.generation])
  /\ evolve_frame' = [evolve_frame EXCEPT !.running = FALSE]
  /\ UNCHANGED << envVars, brain, trainer, game, file >>

\* get_best_genome returns the attribute, None until something assigns it
GetBestGenomeCall ==
  /\ ga.made /\ ~evolve_frame.running /\ call.state # "called"
  /\ call' = Returned("get_best_genome", << >>,
                      [none |-> ~ga.has_best, genome |-> ga.best_genome])
  /\ UNCHANGED << envVars, brain, outerVars >>

NextGA == NewGA \/ EvolveBegin \/ EvolveBreed \/ EvolveEnd \/ GetBestGenomeCall

SpecGA == InitGA /\ [][NextGA]_vars

\* ================================================ _crossover and _mutate alone
\* The draws of _mutate at one position: random.random() < mutation_rate, and
\* the two draws against 0.3 for the neighbours, made only after a hit. A rate
\* of 0 is never hit.
MutationDraws(mutation_rate) ==
  { [hit |-> FALSE, left |-> FALSE, right |-> FALSE] }
  \cup (IF mutation_rate > 0
        THEN [hit : {TRUE}, left : BOOLEAN, right : BOOLEAN]
        ELSE {})

\* the loop of _mutate from position i on (positions count from 1 here)
RECURSIVE MutateFrom(_, _, _)
MutateFrom(mutated, draws, i) ==
  IF i > Len(mutated) THEN mutated
  ELSE IF ~draws[i].hit THEN MutateFrom(mutated, draws, i + 1)
  ELSE MutateFrom([j \in 1..Len(mutated) |->
                     IF \/ j = i
                        \/ (j = i - 1 /\ draws[i].left)
                        \/ (j = i + 1 /\ draws[i].right)
                     THEN 1 - mutated[j] ELSE mutated[j]],
                  draws, i + 1)

\* variant: the loop works on the list it was given
MutateInPlace(genome, draws) ==
  [genome |-> MutateFrom(genome, draws, 1), mutated |-> MutateFrom(genome, draws, 1)]

\* The list objects of _mutate at its return: mutated = genome.copy() is a
\* second list, and every write goes to it
MutateObjects(genome, draws) ==
  [genome |-> genome, mutated |-> MutateFrom(genome, draws, 1)]

\* The environment as constructed, and one call of an operator about to be
\* made: _crossover on any two bit lists of up to SmallGenomeLength bits, or
\* _mutate on a bit list of such a length with the mutation rate, in
\* hundredths, 0 or the Trainer's 0.03.
InitBreed ==
  /\ current_state = initial_state
  /\ rotated_collision_rect = NoRect
  /\ custom_rectangles = << >>
  /\ episode_finished = FALSE
  /\ current_step = 0
  /\ best_distance = PosInf
  /\ current_fitness = Fin(0)
  /\ average_distance = PosInf
  /\ sensor_input = NoSensorInput
  /\ ret = [op |-> "init", state |-> GetState(initial_state, PosInf, NoSensorInput),
            reward |-> Fin(0), done |-> FALSE]
  /\ driver = NoDriver
  /\ OuterIdle
  /\ brain = NoBrain
  /\ call \in { Called("_crossover", [parent1 |-> a, parent2 |-> b]) :
                  a, b \in UNION { [1..n -> {0, 1}] : n \in 0..SmallGenomeLength } }
              \cup { Called("_mutate", [genome |-> BitSeq(p, n), mutation_rate |-> r]) :
                       p \in 0..MaxPattern, n \in 0..SmallGenomeLength, r \in {0, 3} }

\* _crossover(parent1, parent2): random.sample(range(len(parent1)), 2) raises
\* when there are fewer than two positions
CrossoverCall ==
  /\ call.op = "_crossover" /\ call.state = "called"
  /\ IF CrossoverRaises(call.arg.parent1, call.arg.parent2)
     THEN call' = Raised(call.op, call.arg)
     ELSE \E point1, point2 \in 0..(Len(call.arg.parent1) - 1) :
            /\ point1 < point2
            /\ call' = Returned(call.op, call.arg,
                                CrossoverObjects(call.arg.parent1, call.arg.parent2,
                                                 point1, point2))
  /\ UNCHANGED << envVars, brain, outerVars >>

\* _mutate(genome) with its draws
MutateCall ==
  /\ call.op = "_mutate" /\ call.state = "called"
  /\ \E draws \in [1..Len(call.arg.genome) -> MutationDraws(call.arg.mutation_rate)] :
       call' = Returned(call.op, call.arg,
                        [draws |-> draws,
                         objects |-> MutateObjects(call.arg.genome, draws)])
  /\ UNCHANGED << envVars, brain, outerVars >>

NextBreed == CrossoverCall \/ MutateCall

SpecBreed == InitBreed /\ [][NextBreed]_vars

\* ====================================================== Trainer.evaluate_genome
\* max_steps of evaluate_genome
max_steps == 1000
\* evaluate_genome calls made on one Trainer
MaxEvaluations == 3
\* The genomes evaluated, 180 bits by pattern: all 0, which drives into a wall,
\* and pattern 2, which uses up the 1000 steps; and one of 170 bits.
TrainerGenomes ==
  { BitSeq(0, GenomeBits), BitSeq(2, GenomeBits), BitSeq(0, GenomeBits - GeneBits) }

\* Trainer(): its Environment as constructed, no evaluation made yet
InitTrainer ==
  /\ current_state = initial_state
  /\ rotated_collision_rect = NoRect
  /\ custom_rectangles = << >>
  /\ episode_finished = FALSE
  /\ current_step = 0
  /\ best_distance = PosInf
  /\ current_fitness = Fin(0)
  /\ average_distance = PosInf
  /\ sensor_input = NoSensorInput
  /\ ret = [op |-> "init", state |-> GetState(initial_state, PosInf, NoSensorInput),
            reward |-> Fin(0), done |-> FALSE]
  /\ driver = NoDriver
  /\ brain = NoBrain
  /\ call = NoCall
  /\ ga = NoGA /\ evolve_frame = NoFrame /\ game = NoGame /\ file = NoFile
  /\ trainer = [NoTrainer EXCEPT !.made = TRUE, !.pc = "idle"]

\* evaluate_genome up to its loop: Brain(genome), total_reward = 0, env.reset()
EvaluateGenomeBegin(genome) ==
  IF BrainRaises(genome)
  THEN /\ call' = Raised("evaluate_genome", genome)
       /\ UNCHANGED << envVars, brain, trainer >>
  ELSE /\ brain' = MakeBrain(genome)
       /\ ResetEnvironment
       /\ trainer' = [trainer EXCEPT !.pc = "loop", !.genome = genome,
                                     !.total_reward = Fin(0), !.step = 0]
       /\ call' = [op |-> "evaluate_genome", arg |-> genome, state |-> "running",
                   value |-> << >>]
       /\ driver' = driver

\* the loop is left: its range is used up, or the last state shows a collision,
\* or the episode is finished
RolloutOver == trainer.step >= max_steps \/ ret.state.collision \/ episode_finished

\* one pass of the loop: the decision on the sensors of the last state (kept as
\* the value of the running call), the step, the reward added
RolloutStep ==
  /\ trainer.pc = "loop" /\ ~RolloutOver
  /\ call' = [call EXCEPT !.value = MakeDecision(brain, RayDistances(ret.state.sensors))]
  /\ IF episode_finished THEN StepFinished ELSE StepRunning(call'.value)
  /\ trainer' = [trainer EXCEPT !.total_reward = ExtAdd(@, ret'.reward),
                                !.step = @ + 1]
  /\ UNCHANGED << driver, brain, ga, evolve_frame, game, file >>

\* evaluate_genome after its loop: env.reset(), return total_reward
EvaluateGenomeEnd ==
  /\ trainer.pc = "loop" /\ RolloutOver
  /\ ResetEnvironment
  /\ call' = Returned("evaluate_genome", trainer.genome, trainer.total_reward)
  /\ trainer' = [trainer EXCEPT !.pc = "idle",
                                !.scored = Append(@, << trainer.genome, trainer.total_reward >>)]
  /\ UNCHANGED << driver, brain, ga, evolve_frame, game, file >>

\* a caller's evaluate_genome(genome); trainer.scored keeps, in order, every
\* genome evaluated so far with the fitness returned for it
EvaluateGenomeCall ==
  /\ trainer.pc = "idle" /\ Len(trainer.scored) < MaxEvaluations
  /\ \E genome \in TrainerGenomes : EvaluateGenomeBegin(genome)
  /\ UNCHANGED << ga, evolve_frame, game, file >>

NextTrainer == EvaluateGenomeCall \/ RolloutStep \/ EvaluateGenomeEnd

SpecTrainer == InitTrainer /\ [][NextTrainer]_vars

\* ==================================================================== Game
\* frames of one Game session
MaxFrames == 3

\* Game(): its own Environment as constructed, no Brain, nothing drawn yet
InitGame ==
  /\ current_state = initial_state
  /\ rotated_collision_rect = NoRect
  /\ custom_rectangles = << >>
  /\ episode_finished = FALSE
  /\ current_step = 0
  /\ best_distance = PosInf
  /\ current_fitness = Fin(0)
  /\ average_distance = PosInf
  /\ sensor_input = NoSensorInput
  /\ ret = [op |-> "init", state |-> GetState(initial_state, PosInf, NoSensorInput),
            reward |-> Fin(0), done |-> FALSE]
  /\ driver = NoDriver
  /\ brain = NoBrain
  /\ call = NoCall
  /\ ga = NoGA /\ evolve_frame = NoFrame /\ trainer = NoTrainer /\ file = NoFile
  /\ game = [NoGame EXCEPT !.made = TRUE]

\* _handle_mouse_click: a left click removes the obstacle under the pointer or
\* appends one centred on the pointer; a right click turns the obstacle under
\* the pointer by a quarter. The list is the Game's own.
HandleMouseClick ==
  \E x \in {200, 400}, button \in {1, 3} :
    LET y == 300
        hit == { k \in 1..Len(game.custom_rectangles) :
                   LET r == game.custom_rectangles[k]
                   IN r.left <= x /\ x < RectRight(r) /\ r.top <= y /\ y < RectBottom(r) }
        clicked_rect == game.custom_rectangles[CHOOSE k \in hit : \A j \in hit : k <= j]
    IN /\ game.made
       /\ hit = {} => Len(game.custom_rectangles) < MaxObstacles
       /\ game' =
            [game EXCEPT !.custom_rectangles =
               IF button = 1
               THEN IF hit # {}
                    THEN RemoveFirst(@, clicked_rect)
                    ELSE Append(@, Rect(x - rectangle_width \div 2,
                                        y - rectangle_height \div 2,
                                        rectangle_width, rectangle_height))
               ELSE IF hit # {}
                    THEN Append(RemoveFirst(@, clicked_rect),
                                Rect(clicked_rect.left, clicked_rect.top,
                                     clicked_rect.h, clicked_rect.w))
                    ELSE @]
       /\ UNCHANGED << envVars, brainVars, ga, evolve_frame, trainer, file >>

\* update without a Brain: the keys held give the action, env.step(action)
GameUpdate ==
  \E action \in Actions :
    /\ game.made /\ game.frames < MaxFrames
    /\ IF episode_finished THEN StepFinished ELSE StepRunning(action)
    /\ game' = [game EXCEPT !.frames = @ + 1]
    /\ UNCHANGED << driver, brainVars, ga, evolve_frame, trainer, file >>

\* handle_events, key 0: env.reset()
GameKeyReset ==
  /\ game.made
  /\ ResetEnvironment
  /\ UNCHANGED << driver, brainVars, outerVars >>

NextGame == HandleMouseClick \/ GameUpdate \/ GameKeyReset

SpecGame == InitGame /\ [][NextGame]_vars

\* ====================================================== the genome file
\* A text is the sequence of its characters.
\* variant: the elements are written one after the other with nothing between
JoinNoSeparator(genome) == [i \in 1..Len(genome) |-> IF genome[i] = 0 THEN "0" ELSE "1"]

\* ','.join(map(str, genome)) for a genome of the integers 0 and 1, computed
\* by halves: the join of a list is the joins of its halves with a comma between
RECURSIVE Join(_)
Join(genome) ==
  IF genome = << >> THEN << >>
  ELSE IF Len(genome) = 1 THEN << IF genome[1] = 0 THEN "0" ELSE "1" >>
  ELSE LET half == Len(genome) \div 2
       IN Join(SubSeq(genome, 1, half)) \o << "," >>
            \o Join(SubSeq(genome, half + 1, Len(genome)))

\* text.split(","): the pieces between the commas, one more than there are
\* commas, empty pieces included; computed by halves: the last piece of the
\* left half and the first piece of the right half are one piece
RECURSIVE Split(_)
Split(text) ==
  IF text = << >> THEN << << >> >>
  ELSE IF Len(text) = 1
  THEN IF text[1] = "," THEN << << >>, << >> >> ELSE << text >>
  ELSE LET half == Len(text) \div 2
           l == Split(SubSeq(text, 1, half))
           r == Split(SubSeq(text, half + 1, Len(text)))
       IN SubSeq(l, 1, Len(l) - 1) \o << l[Len(l)] \o r[1] >> \o Tail(r)

\* int(piece) for a piece of the digits 0 and 1; leading zeros are accepted
RECURSIVE ToInt(_)
ToInt(piece) ==
  IF piece = << >> THEN 0
  ELSE 10 * ToInt(SubSeq(piece, 1, Len(piece) - 1))
       + (IF piece[Len(piece)] = "1" THEN 1 ELSE 0)

\* list(map(int, f.read().split(","))): int of an empty piece is a ValueError
ReadGenomeRaises(text) == \E k \in 1..Len(Split(text)) : Split(text)[k] = << >>
ReadGenome(text) == [k \in 1..Len(Split(text)) |-> ToInt(Split(text)[k])]

\* the genomes saved: by pattern, of 180 bits and of the lengths about it
FileGenomes ==
  { BitSeq(p, len) : p \in 0..MaxPattern,
                     len \in {0, 1, GenomeBits - 1, GenomeBits, GenomeBits + 1} }

\* texts a file may hold that save_genome did not write: a piece repeated
\* count times with the separator given
FileTexts ==
  { [i \in 1..(count * Len(piece) - (IF Len(piece) > 0 /\ piece[Len(piece)] = "," THEN 1 ELSE 0))
       |-> piece[((i - 1) % Len(piece)) + 1]] :
      piece \in { << "0", "," >>, << "1", "," >>, << "0", "1", "," >>, << ",", "1" >>,
                  << "1", ",", "," >> },
      count \in {1, 60, 90, GenomeBits - 1, GenomeBits, GenomeBits + 1} }

\* the Environment as constructed, a Trainer about to save a genome or a file
\* written by other means
InitFile ==
  /\ current_state = initial_state
  /\ rotated_collision_rect = NoRect
  /\ custom_rectangles = << >>
  /\ episode_finished = FALSE
  /\ current_step = 0
  /\ best_distance = PosInf
  /\ current_fitness = Fin(0)
  /\ average_distance = PosInf
  /\ sensor_input = NoSensorInput
  /\ ret = [op |-> "init", state |-> GetState(initial_state, PosInf, NoSensorInput),
            reward |-> Fin(0), done |-> FALSE]
  /\ driver = NoDriver
  /\ brain = NoBrain
  /\ OuterIdle
  /\ call \in { Called("save_genome", genome) : genome \in FileGenomes }
               \cup { Called("write", text) : text \in FileTexts }

\* save_genome(genome, generation, fitness): the file holds the joined genome
SaveGenome ==
  /\ call.op = "save_genome" /\ call.state = "called"
  /\ file' = [written |-> TRUE, text |-> Join(call.arg), genome |-> call.arg]
  /\ call' = Returned(call.op, call.arg, << >>)
  /\ UNCHANGED << envVars, brain, ga, evolve_frame, trainer, game >>

\* a file put in place by other means
WriteFile ==
  /\ call.op = "write" /\ call.state = "called"
  /\ file' = [written |-> TRUE, text |-> call.arg, genome |-> << >>]
  /\ call' = Returned(call.op, call.arg, << >>)
  /\ UNCHANGED << envVars, brain, ga, evolve_frame, trainer, game >>

\* Game(visualization_mode=True, load_genome_path=...): the text is read, cut
\* at the commas, each piece made an int, and the list given to Brain
LoadGenome ==
  /\ file.written /\ call.op \in {"save_genome", "write"}
  /\ IF ReadGenomeRaises(file.text) \/ BrainRaises(ReadGenome(file.text))
     THEN /\ call' = Raised("Game", file.text)
          /\ UNCHANGED << brain, game >>
     ELSE /\ brain' = MakeBrain(ReadGenome(file.text))
          /\ game' = [NoGame EXCEPT !.made = TRUE]
          /\ call' = Returned("Game", file.text, brain'.genome)
  /\ UNCHANGED << envVars, ga, evolve_frame, trainer, file >>

NextFile == SaveGenome \/ WriteFile \/ LoadGenome

SpecFile == InitFile /\ [][NextFile]_vars

\* ================================================================ Trainer.train
\* The Trainer's population is 50 genomes with 5 elite and tournaments of 5;
\* the model keeps TrainerPopulation genomes, one elite, and tournaments of the
\* default size or of the whole population where that is smaller.
TrainerPopulation == 2
\* the generations asked of train
MaxGenerations == 2

\* Trainer() with its population drawn, and train(generations) at the top of
\* its first generation
InitTrain ==
  /\ current_state = initial_state
  /\ rotated_collision_rect = NoRect
  /\ custom_rectangles = << >>
  /\ episode_finished = FALSE
  /\ current_step = 0
  /\ best_distance = PosInf
  /\ current_fitness = Fin(0)
  /\ average_distance = PosInf
  /\ sensor_input = NoSensorInput
  /\ ret = [op |-> "init", state |-> GetState(initial_state, PosInf, NoSensorInput),
            reward |-> Fin(0), done |-> FALSE]
  /\ driver = NoDriver
  /\ brain = NoBrain
  /\ evolve_frame = NoFrame /\ game = NoGame /\ file = NoFile
  /\ \E p \in {0, 1}, generations \in 1..MaxGenerations :
       /\ ga = MakeGA([population_size |-> TrainerPopulation, genome_length |-> GenomeBits,
                       elite_size |-> 1,
                       tournament_size |-> Min2(DefaultTournamentSize, TrainerPopulation)],
                      [i \in 1..TrainerPopulation |-> BitSeq(p, GenomeBits)])
       /\ trainer = [NoTrainer EXCEPT !.made = TRUE, !.pc = "idle", !.train_pc = "member",
                                      !.generations = generations, !.member = 1]
       /\ call = [op |-> "train", arg |-> generations, state |-> "running", value |-> << >>]

\* fitness = self.evaluate_genome(genome, visualize) for the next member
TrainMember ==
  /\ trainer.train_pc = "member" /\ trainer.pc = "idle" /\ call.op = "train"
  /\ trainer.member <= Len(ga.population)
  /\ EvaluateGenomeBegin(ga.population[trainer.member])
  /\ UNCHANGED << ga, evolve_frame, game, file >>

\* variant: only the best score of the generation is kept
TrainScoreKeepsBest ==
  /\ trainer.train_pc = "member" /\ trainer.pc = "idle"
  /\ call.op = "evaluate_genome" /\ call.state = "returned"
  /\ trainer' = [trainer EXCEPT
                   !.fitness_scores = << IF ExtLt(trainer.best_fitness_current, call.value)
                                         THEN call.value ELSE trainer.best_fitness_current >>,
                   !.best_fitness_current = IF ExtLt(@, call.value) THEN call.value ELSE @,
                   !.member = @ + 1]
  /\ call' = [op |-> "train", arg |-> trainer.generations, state |-> "running",
              value |-> << >>]
  /\ UNCHANGED << envVars, brain, ga, evolve_frame, game, file >>

\* the evaluation has returned: fitness_scores.append(fitness), the best of the
\* generation, and on to the next member
TrainScore ==
  /\ trainer.train_pc = "member" /\ trainer.pc = "idle"
  /\ call.op = "evaluate_genome" /\ call.state = "returned"
  /\ trainer' = [trainer EXCEPT
                   !.fitness_scores = Append(@, call.value),
                   !.best_fitness_current = IF ExtLt(@, call.value) THEN call.value ELSE @,
                   !.member = @ + 1]
  /\ call' = [op |-> "train", arg |-> trainer.generations, state |-> "running",
              value |-> << >>]
  /\ UNCHANGED << envVars, brain, ga, evolve_frame, game, file >>

\* after the last member: the best genome is saved when it beats the best so
\* far, and self.ga.evolve(fitness_scores) is called
TrainEvolve ==
  /\ trainer.train_pc = "member" /\ trainer.pc = "idle" /\ call.op = "train"
  /\ trainer.member > Len(ga.population)
  /\ IF ExtLt(trainer.best_fitness_overall, trainer.best_fitness_current)
     THEN LET first == CHOOSE i \in 1..Len(trainer.fitness_scores) :
                         /\ trainer.fitness_scores[i] = trainer.best_fitness_current
                         /\ \A j \in 1..(i - 1) :
                              trainer.fitness_scores[j] # trainer.best_fitness_current
          IN file' = [written |-> TRUE, text |-> Join(ga.population[first]),
                      genome |-> ga.population[first]]
     ELSE file' = file
  /\ trainer' = [trainer EXCEPT
                   !.train_pc = "evolve",
                   !.best_fitness_overall =
                      IF ExtLt(@, trainer.best_fitness_current)
                      THEN trainer.best_fitness_current ELSE @]
  /\ evolve_frame' = EvolveFrame(trainer.fitness_scores)
  /\ call' = [op |-> "evolve", arg |-> trainer.fitness_scores, state |-> "running",
              value |-> << >>]
  /\ UNCHANGED << envVars, brain, ga, game >>

\* evolve is over: its error ends train; otherwise the next generation begins,
\* or train returns after the last
TrainNext ==
  /\ trainer.train_pc = "evolve" /\ ~evolve_frame.running /\ call.op = "evolve"
  /\ IF call.state = "raised"
     THEN /\ trainer' = [trainer EXCEPT !.train_pc = "done"]
          /\ call' = Raised("train", trainer.generations)
     ELSE IF trainer.generation + 1 >= trainer.generations
     THEN /\ trainer' = [trainer EXCEPT !.train_pc = "done", !.generation = @ + 1]
          /\ call' = Returned("train", trainer.generations, << >>)
     ELSE /\ trainer' = [trainer EXCEPT !.generation = @ + 1, !.member = 1,
                                        !.train_pc = "member",
                                        !.fitness_scores = << >>,
                                        !.best_fitness_current = NegInf]
          /\ call' = [op |-> "train", arg |-> trainer.generations, state |-> "running",
                      value |-> << >>]
  /\ UNCHANGED << envVars, brain, ga, evolve_frame, game, file >>

NextTrain ==
  \/ TrainMember \/ RolloutStep \/ EvaluateGenomeEnd \/ TrainScore
  \/ TrainEvolve \/ EvolveBreed \/ EvolveEnd \/ TrainNext

SpecTrain == InitTrain /\ [][NextTrain]_vars

\* ==================================================================== claims
\* Two rectangles share area.
Overlap(a, b) ==
  /\ a.left < b.left + b.w /\ b.left < a.left + a.w
  /\ a.top < b.top + b.h /\ b.top < a.top + a.h

\* The car's rectangle lies within the parking spot, (600, 200) to (666, 244).
CarInsideSpot ==
  /\ rotated_collision_rect.set
  /\ rotated_collision_rect.r.left >= 600
  /\ rotated_collision_rect.r.left + rotated_collision_rect.r.w <= 666
  /\ rotated_collision_rect.r.top >= 200
  /\ rotated_collision_rect.r.top + rotated_collision_rect.r.h <= 244

\* The heading is within 10 degrees of 0, counting wrap-around.
HeadingNearZero ==
  current_state.rotation \in 0..10 \/ current_state.rotation \in 350..359

CarIsParked == CarInsideSpot /\ HeadingNearZero

\* A step call was made on a running episode.
RunningStep == ~episode_finished /\ current_step' = current_step + 1

\* C1: once the episode is finished, every further step returns the same
\* observation with reward 0 and done = true and changes none of position,
\* heading, speed, collision counter, step count, fitness and best distance;
\* only reset makes the environment running again (the other thing that can
\* happen in a finished episode is an edit of the obstacle list, which
\* returns nothing and leaves all of these alone).
C1_FinishedStepIsNoOp ==
  [][episode_finished =>
       \/ ret'.op = "reset" /\ ~episode_finished'
       \/ /\ custom_rectangles' # custom_rectangles
          /\ UNCHANGED << ret, episode_finished, current_state, current_step,
                          current_fitness, best_distance >>
       \/ /\ episode_finished'
          /\ ret'.op = "step" /\ ret'.done /\ ret'.reward = Fin(0)
          /\ ret'.state = ret.state
          /\ UNCHANGED << current_state, current_step, current_fitness,
                          best_distance >>]_vars

\* a step was called on a finished episode and returned reward 0
C1_Witness ==
  /\ episode_finished /\ ret.op = "step" /\ ret.done /\ ret.reward = Fin(0)
  /\ current_state.collision_counter > 0

\* C2: a step returns done = true exactly when, after it, the collision counter
\* is above 0, or the step count is at least 1000, or the car is correctly
\* parked; and when done is true the environment is finished.
C2_DoneIffTerminal ==
  ret.op = "step" =>
    /\ ret.done <=> \/ current_state.collision_counter > 0
                    \/ current_step >= 1000
                    \/ CarIsParked
    /\ ret.done => episode_finished

\* a step ended the episode by parking, without collision, before the step cap
C2_Witness ==
  /\ ret.op = "step" /\ ret.done /\ CarIsParked
  /\ current_state.collision_counter = 0 /\ current_step < 1000

\* The rectangle of the last _update_position overlaps a barrier or a
\* registered obstacle, or reaches past an edge of the arena.
CandidateOverlaps ==
  /\ rotated_collision_rect.set
  /\ \/ \E k \in 1..Len(barriers) : Overlap(rotated_collision_rect.r, barriers[k])
     \/ \E k \in 1..Len(custom_rectangles) :
          Overlap(rotated_collision_rect.r, custom_rectangles[k])
     \/ rotated_collision_rect.r.left < 0
     \/ rotated_collision_rect.r.left + rotated_collision_rect.r.w > 800
     \/ rotated_collision_rect.r.top < 0
     \/ rotated_collision_rect.r.top + rotated_collision_rect.r.h > 600

C4_ResetRestoresStart ==
  ret.op = "reset" =>
    /\ current_state.car_pos_x = 100 * PosScale
    /\ current_state.car_pos_y = 300 * PosScale
    /\ current_state.car_speed = 0
    /\ current_state.rotation = 0
    /\ current_state.collision_counter = 0
    /\ current_step = 0
    /\ current_fitness = Fin(0)
    /\ best_distance = PosInf
    /\ ~episode_finished

\* reset was called after an episode that had driven into the parking spot
C4_Witness ==
  /\ ret.op = "reset" /\ CarInsideSpot /\ current_step = 0

\* The reward the claim gives a running step, in tenths: -100 for a collision on
\* that step, 10 * (best - current average distance) when the current is a new
\* best, 1000 when parked after the step, -0.1 always.
ClaimedReward ==
  ExtAdd(ExtAdd(ExtAdd(
    IF current_state'.collision_counter > current_state.collision_counter
    THEN Fin(-1000) ELSE Fin(0),
    IF ExtLt(average_distance', best_distance)
    THEN ExtSub(best_distance, average_distance') ELSE Fin(0)),
    IF CarIsParked' THEN Fin(10000) ELSE Fin(0)),
    Fin(-1))

\* C5: the reward of a running step is that sum, and the episode fitness grows
\* by exactly the reward.
C5_RewardIsSum ==
  [][RunningStep =>
       /\ ret'.reward = ClaimedReward
       /\ current_fitness' = ExtAdd(current_fitness, ret'.reward)]_vars

\* a step earned a finite reward for a new best distance
C5_Witness ==
  /\ ret.op = "step" /\ ~ret.done
  /\ IsFinite(ret.reward) /\ ret.reward.v > 0
  /\ best_distance = average_distance

\* C6: the parking predicate is true exactly when the car's rectangle lies
\* entirely inside the parking spot and the heading is in [0, 10] or
\* [350, 360); a contained car at heading 0 is parked, one at heading 15 is not.
C6_ParkedIffInsideAndAligned ==
  ret.op = "render" =>
    /\ ret.data.is_parked <=> CarIsParked
    /\ (CarInsideSpot /\ current_state.rotation = 0) => ret.data.is_parked
    /\ (CarInsideSpot /\ current_state.rotation = 15) => ~ret.data.is_parked

\* a contained car heading 350 degrees was reported parked
C6_Witness ==
  /\ ret.op = "render" /\ ret.data.is_parked
  /\ CarInsideSpot /\ current_state.rotation = 350

\* sign * (1 + mantissa) * 2 ** (exponent - 7) of ten bits, in 1/4096, kept
\* within -100 .. 100: bit 0 the sign, bits 1-4 the exponent and bits 5-9 the
\* fraction, both most significant bit first.
ClaimedDecode(bits) ==
  LET exponent == ((bits[2] * 2 + bits[3]) * 2 + bits[4]) * 2 + bits[5]
      fraction32 == (((bits[6] * 2 + bits[7]) * 2 + bits[8]) * 2 + bits[9]) * 2 + bits[10]
      magnitude == (32 + fraction32) * Pow2(exponent)
      saturated == IF magnitude > 100 * 4096 THEN 100 * 4096 ELSE magnitude
  IN IF bits[1] = 1 THEN -saturated ELSE saturated

AllZero(bits) == \A i \in 1..Len(bits) : bits[i] = 0

\* C7: every 10-bit sequence decodes to sign * (1 + mantissa) * 2^(exponent-7)
\* saturated to [-100, 100]; ten zeros decode to 2^-7 and ninety zeros to nine
\* coefficients 2^-7.
C7_DecodeFormula ==
  /\ (call.op = "_binary_to_float" /\ call.state # "called" /\ Len(call.arg) = 10) =>
       /\ call.state = "returned"
       /\ call.value = ClaimedDecode(call.arg)
       /\ call.value >= -100 * 4096 /\ call.value <= 100 * 4096
       /\ AllZero(call.arg) => call.value = 32
  /\ (call.op = "_bits_to_coefficients" /\ call.state # "called"
      /\ Len(call.arg) = 90 /\ AllZero(call.arg)) =>
       /\ call.state = "returned"
       /\ call.value = [k \in 1..9 |-> 32]

\* ten ones were decoded and the value saturated at -100
C7_Witness ==
  /\ call.op = "_binary_to_float" /\ call.state = "returned"
  /\ call.arg = [i \in 1..10 |-> 1]
  /\ call.value = -100 * 4096

\* C8: Brain(genome) raises for every genome whose length is not 180 and leaves
\* no Brain; for 180 bits it succeeds, with nine engine coefficients decoded
\* from bits 0-89 and nine wheel coefficients from bits 90-179.
C8_BrainNeedsGenomeOf180 ==
  (call.op = "Brain" /\ call.state # "called") =>
    /\ call.state = "raised" <=> Len(call.arg) # 180
    /\ call.state = "raised" => ~brain.made
    /\ call.state = "returned" =>
         /\ brain.made /\ brain.genome = call.arg
         /\ brain.engine_coefficients =
              [k \in 1..9 |-> ClaimedDecode(SubSeq(call.arg, 10 * k - 9, 10 * k))]
         /\ brain.wheel_coefficients =
              [k \in 1..9 |-> ClaimedDecode(SubSeq(call.arg, 90 + 10 * k - 9, 90 + 10 * k))]

\* a genome of 190 bits was refused
C8_Witness ==
  /\ call.op = "Brain" /\ call.state = "raised" /\ Len(call.arg) = 190 /\ ~brain.made

\* C9 as stated: _bits_to_coefficients raises for every length other than 90
\* and _binary_to_float for every length other than 10.
C9_RaisesUnlessExactLength ==
  /\ (call.op = "_bits_to_coefficients" /\ call.state # "called"
      /\ Len(call.arg) # 90) => call.state = "raised"
  /\ (call.op = "_binary_to_float" /\ call.state # "called"
      /\ Len(call.arg) # 10) => call.state = "raised"

\* C9: _bits_to_coefficients raises exactly for the lengths that are not a
\* multiple of 10 and otherwise returns one coefficient per ten bits (eight for
\* 80 bits, ten for 100); _binary_to_float raises exactly for the lengths
\* other than 10.
C9_RaisesUnlessWholeChunks ==
  /\ (call.op = "_bits_to_coefficients" /\ call.state # "called") =>
       /\ call.state = "raised" <=> Len(call.arg) % 10 # 0
       /\ call.state = "returned" => Len(call.value) * 10 = Len(call.arg)
  /\ (call.op = "_binary_to_float" /\ call.state # "called") =>
       (call.state = "raised" <=> Len(call.arg) # 10)

\* eighty bits were decoded into eight coefficients
C9_Witness ==
  /\ call.op = "_bits_to_coefficients" /\ call.state = "returned"
  /\ Len(call.arg) = 80 /\ Len(call.value) = 8

\* The signal of a channel in 1/4096: the first eight coefficients times the
\* sensor values limited to 0 .. 100, plus the ninth, limited to -100 .. 100.
ClaimedSignal(coefficients, sensors) ==
  LET limited(s) == IF s < 0 THEN 0 ELSE IF s > 100 THEN 100 ELSE s
      total == coefficients[1] * limited(sensors[1]) + coefficients[2] * limited(sensors[2])
               + coefficients[3] * limited(sensors[3]) + coefficients[4] * limited(sensors[4])
               + coefficients[5] * limited(sensors[5]) + coefficients[6] * limited(sensors[6])
               + coefficients[7] * limited(sensors[7]) + coefficients[8] * limited(sensors[8])
               + coefficients[9]
  IN IF total > 100 * 4096 THEN 100 * 4096
     ELSE IF total < -100 * 4096 THEN -100 * 4096 ELSE total

\* -1 below 0.33, +1 above 0.66, 0 otherwise, of the logistic in 1/10000.
ClaimedAction(signal) ==
  IF Logistic(signal) < 3300 THEN -1
  ELSE IF Logistic(signal) > 6600 THEN 1
  ELSE 0

DecisionReturned(c) == c.op = "make_decision" /\ c.state = "returned"

\* C10: make_decision leaves the genome and the coefficients as they are; each
\* channel's action is -1, 0 or +1 as the logistic of the channel's clamped
\* signal is below 0.33, above 0.66 or neither, a function of the coefficients
\* and the eight sensor values alone; and of two decisions of one Brain the one
\* with the larger signal has the larger or equal action.
C10_DecisionIsPureThreshold ==
  [][DecisionReturned(call') =>
       /\ brain' = brain
       /\ Len(call'.arg) = 8
       /\ call'.value.engine =
            ClaimedAction(ClaimedSignal(brain.engine_coefficients, call'.arg))
       /\ call'.value.wheels =
            ClaimedAction(ClaimedSignal(brain.wheel_coefficients, call'.arg))
       /\ DecisionReturned(call) =>
            /\ ClaimedSignal(brain.engine_coefficients, call.arg)
                 <= ClaimedSignal(brain.engine_coefficients, call'.arg)
               => call.value.engine <= call'.value.engine
            /\ ClaimedSignal(brain.wheel_coefficients, call.arg)
                 <= ClaimedSignal(brain.wheel_coefficients, call'.arg)
               => call.value.wheels <= call'.value.wheels]_vars

\* a decision came back with the engine neutral and the wheels to the right
C10_Witness ==
  /\ DecisionReturned(call) /\ brain.made
  /\ call.value.engine = 0 /\ call.value.wheels = 1

\* ------------------------------------------------ claims on GeneticAlgorithm
\* an evolve call has ended, by returning or by raising
EvolveEnded == call.op = "evolve" /\ call.state \in {"returned", "raised"}

\* The members the claims call the top e by raw fitness: those with fewer than
\* e members ranked before them, a member ranking before another when its score
\* is higher, or equal with the lower index.
ClaimedTop(scores, e) ==
  { i \in 1..Len(scores) :
      Cardinality({ j \in 1..Len(scores) :
                      \/ ExtLt(scores[i], scores[j])
                      \/ (scores[j] = scores[i] /\ j < i) }) < e }

AllScoresEqual(scores) == \A i, j \in 1..Len(scores) : scores[i] = scores[j]

\* C11: an evolve call on a population of size N with elite size E <= N and
\* one score per member returns, and the population it returns has exactly N
\* genomes and contains each of the E genomes of highest raw fitness of the
\* previous population.
C11_EvolveKeepsSizeAndElite ==
  ( /\ EvolveEnded /\ ga.elite_size <= ga.population_size
    /\ Len(evolve_frame.fitness_scores) = ga.population_size ) =>
    /\ call.state = "returned"
    /\ Len(call.value.population) = ga.population_size
    /\ \A i \in ClaimedTop(evolve_frame.fitness_scores, ga.elite_size) :
         \E j \in 1..Len(call.value.population) :
           call.value.population[j] = evolve_frame.old_population[i]

\* C12: an evolve call whose scores, one per member, are all identical does
\* not raise, gives every member the normalized share 1/N, and returns a
\* population of N genomes.
C12_EqualScoresGiveFullGeneration ==
  ( /\ EvolveEnded /\ AllScoresEqual(evolve_frame.fitness_scores)
    /\ Len(evolve_frame.fitness_scores) = ga.population_size ) =>
    /\ call.state = "returned"
    /\ \A i \in 1..ga.population_size :
         /\ evolve_frame.normalized_fitness[i].k = "fin"
         /\ evolve_frame.normalized_fitness[i].n * ga.population_size
              = evolve_frame.normalized_fitness[i].d
    /\ Len(call.value.population) = ga.population_size

\* C13: with four all-zero genomes of 180 bits and elite size 1, an evolve call
\* with the scores 1, 2, 3, 4 returns, the generation counter is then 1, the
\* population has four genomes and the genome that scored 4 is among them.
C13_ScenarioCompletes ==
  ( /\ EvolveEnded
    /\ ga.population_size = 4 /\ ga.genome_length = GenomeBits /\ ga.elite_size = 1
    /\ \A i \in 1..4 : AllZero(evolve_frame.old_population[i])
    /\ evolve_frame.fitness_scores = << Fin(1), Fin(2), Fin(3), Fin(4) >> ) =>
    /\ call.state = "returned"
    /\ ga.generation = 1
    /\ Len(ga.population) = 4
    /\ \E j \in 1..4 : ga.population[j] = evolve_frame.old_population[4]

\* C18: once an evolve call has returned, get_best_genome returns a genome, and
\* it is one of the scored genomes with no score above its own.
C18_BestGenomeIsTopScored ==
  (call.op = "get_best_genome" /\ call.state = "returned" /\ ga.generation >= 1) =>
    /\ ~call.value.none
    /\ \E i \in 1..Len(evolve_frame.fitness_scores) :
         /\ call.value.genome = evolve_frame.old_population[i]
         /\ \A j \in 1..Len(evolve_frame.fitness_scores) :
              ~ExtLt(evolve_frame.fitness_scores[i], evolve_frame.fitness_scores[j])

\* ------------------------------------------------------- claims on the Trainer
EvaluationReturned == call.op = "evaluate_genome" /\ call.state = "returned"

\* C14: the fitness evaluate_genome returns for a genome of 180 elements is a
\* number (not nan) and is not below 0.
C14_FitnessAtLeastZero ==
  (EvaluationReturned /\ Len(call.arg) = GenomeBits) =>
    /\ call.value.k # "nan"
    /\ ~ExtLt(call.value, Fin(0))

\* an evaluation that ended in a collision before the step limit has returned
C14_Witness ==
  /\ EvaluationReturned /\ Len(call.arg) = GenomeBits
  /\ trainer.step > 0 /\ trainer.step < max_steps

\* C15: whatever was evaluated in between, two evaluations of one genome on
\* one Trainer return the same fitness; during the rollout the reward summed so
\* far is the sum the Environment keeps since its reset, and the total at the
\* end of the loop is what is returned.
C15_EvaluationIsDeterministic ==
  /\ \A i, j \in 1..Len(trainer.scored) :
       trainer.scored[i][1] = trainer.scored[j][1]
         => trainer.scored[i][2] = trainer.scored[j][2]
  /\ trainer.pc = "loop" => trainer.total_reward = current_fitness
  /\ EvaluationReturned =>
       /\ call.value = trainer.total_reward
       /\ trainer.scored[Len(trainer.scored)] = << call.arg, call.value >>

\* a genome was evaluated, then another one, then the first again
C15_Witness ==
  /\ EvaluationReturned /\ Len(trainer.scored) = 3
  /\ trainer.scored[1][1] = trainer.scored[3][1]
  /\ trainer.scored[2][1] # trainer.scored[1][1]

\* C20: the step count of the Environment never exceeds 1000 and an episode
\* still running has made fewer than 1000 steps, so it is finished after at most
\* 1000 step calls; the rollout loop has made as many passes as the episode has
\* steps, at most 1000; and every step of a rollout in its loop is either one
\* more pass or the end of the evaluation, so the loop ends within 1000 passes.
C20_RolloutTerminates ==
  /\ [](current_step <= max_episode_steps)
  /\ [](~episode_finished => current_step < max_episode_steps)
  /\ [](trainer.pc = "loop" => trainer.step = current_step /\ trainer.step <= max_steps)
  /\ [][trainer.pc = "loop" =>
          \/ trainer'.pc = "loop" /\ trainer'.step = trainer.step + 1
          \/ trainer'.pc = "idle" /\ call'.state = "returned"]_vars

\* a rollout has used up its 1000 steps and the episode is finished without a
\* collision
C20_Witness ==
  /\ trainer.pc = "loop" /\ trainer.step = max_steps
  /\ episode_finished /\ ~ret.state.collision

\* -------------------------------------------------------- claims on the Game
\* C19: the obstacles the Environment reads in its collision checks and hands
\* to its sensor rays are the obstacles drawn through the Game: one added by a
\* click is among them, one removed by a click is not.
C19_DrawnObstaclesAreRead ==
  game.made =>
    { custom_rectangles[k] : k \in 1..Len(custom_rectangles) }
      = { game.custom_rectangles[k] : k \in 1..Len(game.custom_rectangles) }

\* --------------------------------------------------- claims on the genome file
\* the text is the elements of the genome as 0 or 1 with one comma between two
ClaimedText(genome, text) ==
  /\ Len(text) = (IF genome = << >> THEN 0 ELSE 2 * Len(genome) - 1)
  /\ \A i \in 1..Len(genome) :
       /\ text[2 * i - 1] = (IF genome[i] = 0 THEN "0" ELSE "1")
       /\ i < Len(genome) => text[2 * i] = ","

\* the number of tokens of a text: one more than its commas
TokenCount(text) == Cardinality({ i \in 1..Len(text) : text[i] = "," }) + 1

C16_EvolveAfterAllEvaluated ==
  /\ [][(evolve_frame'.running /\ ~evolve_frame.running) =>
          LET n == ga.population_size
              scores == evolve_frame'.fitness_scores
          IN /\ ga.generation = trainer.generation
             /\ Len(trainer.scored) = n * (trainer.generation + 1)
             /\ Len(scores) = n
             /\ \A i \in 1..n :
                  trainer.scored[n * trainer.generation + i]
                    = << evolve_frame'.old_population[i], scores[i] >>]_vars
  /\ []((call.op = "train" /\ call.state = "returned")
          => ga.generation = trainer.generations)
  /\ []((trainer.train_pc = "member" /\ trainer.pc = "idle" /\ call.op = "train")
          => /\ ga.generation = trainer.generation
             /\ Len(trainer.fitness_scores) = trainer.member - 1)

\* the second generation, whose members differ, has been evaluated and evolve
\* is at work on its scores
C16_Witness ==
  /\ trainer.train_pc = "evolve" /\ evolve_frame.running /\ trainer.generation = 1
  /\ Len(evolve_frame.fitness_scores) = ga.population_size
  /\ \E i, j \in 1..ga.population_size :
       evolve_frame.old_population[i] # evolve_frame.old_population[j]

\* ------------------------------------------------- claims on _apply_action
\* The speed the engine signal gives, in steps of 0.025: up by one step to at
\* most 2.5 (100 steps), down by one step to at least -1.25 (-50 steps).
ClaimedSpeed(speed, engine) ==
  IF engine = 1 THEN (IF speed + 1 < 100 THEN speed + 1 ELSE 100)
  ELSE IF engine = -1 THEN (IF speed - 1 > -50 THEN speed - 1 ELSE -50)
  ELSE speed

C22_HeadingTurnsOnlyAtSpeed ==
  /\ [](current_state.rotation \in 0..359)
  /\ [][RunningStep =>
          LET speed == ClaimedSpeed(current_state.car_speed, driver'.engine)
          IN current_state'.rotation
               = IF speed >= 4 \/ speed <= -4
                 THEN (current_state.rotation + driver'.wheels) % 360
                 ELSE current_state.rotation]_vars

\* the step that brought the speed from 0.075 to the threshold turned the car
\* left from heading 0, which wrapped to 359
C22_Witness ==
  /\ ret.op = "step" /\ current_step = 4 /\ current_state.car_speed = 4
  /\ driver.wheels = -1 /\ current_state.rotation = 359

\* ----------------------------------------- claims on the parts of evolve
\* The members ranked before member i: those with a higher score, and those
\* with the same score and a lower index.
RankedBefore(scores, i) ==
  { j \in 1..Len(scores) : ExtLt(scores[i], scores[j]) \/ (scores[j] = scores[i] /\ j < i) }

\* C23: after an evolve call that returned, with elite size E >= 1, the first E
\* positions of the new population hold the E top-scored genomes of the
\* previous population by descending raw score, equal scores by ascending
\* index: position k holds the member that has k - 1 members ranked before it.
\* Position 1 then holds the best genome of the previous generation.
C23_EliteLeadsInRankOrder ==
  (call.op = "evolve" /\ call.state = "returned" /\ ga.elite_size >= 1) =>
    \A k \in 1..ga.elite_size : \A i \in 1..Len(evolve_frame.fitness_scores) :
      Cardinality(RankedBefore(evolve_frame.fitness_scores, i)) = k - 1
        => ga.population[k] = evolve_frame.old_population[i]

\* an evolve with two elite places returned; the two lowest members tied and
\* differ, the third scored above them, and the places went to the third and
\* then to the first
C23_Witness ==
  /\ call.op = "evolve" /\ call.state = "returned" /\ ga.elite_size = 2
  /\ evolve_frame.fitness_scores[1] = evolve_frame.fitness_scores[2]
  /\ ExtLt(evolve_frame.fitness_scores[1], evolve_frame.fitness_scores[3])
  /\ evolve_frame.old_population[1] # evolve_frame.old_population[2]
  /\ evolve_frame.old_population[1] # evolve_frame.old_population[3]
  /\ ga.population[1] = evolve_frame.old_population[3]
  /\ ga.population[2] = evolve_frame.old_population[1]

\* C24: _crossover on two parents of the same length L returns two children of
\* length L that are, for two cut points p1 < p2 within the genome, child A =
\* parent1[0:p1] + parent2[p1:p2] + parent1[p2:L] and child B the same with
\* the parents exchanged, so that at every position the two children carry the
\* two parents' bits; on parents of different lengths it fails.
C24_CrossoverSplicesAnyEqualParents ==
  (call.op = "_crossover" /\ call.state # "called") =>
    IF Len(call.arg.parent1) # Len(call.arg.parent2)
    THEN call.state = "raised"
    ELSE /\ call.state = "returned"
         /\ LET L == Len(call.arg.parent1)
                a == call.arg.parent1
                b == call.arg.parent2
                childA == call.value.children[1]
                childB == call.value.children[2]
            IN /\ Len(childA) = L /\ Len(childB) = L
               /\ \E p1, p2 \in 0..L :
                    /\ p1 < p2
                    /\ \A i \in 1..L :
                         IF i > p1 /\ i <= p2
                         THEN childA[i] = b[i] /\ childB[i] = a[i]
                         ELSE childA[i] = a[i] /\ childB[i] = b[i]

\* C24, amended: the same for two parents of the same length L >= 2; two
\* parents of the same length below 2 make _crossover fail as parents of
\* different lengths do.
C24_CrossoverSplicesParentsOfTwoBits ==
  (call.op = "_crossover" /\ call.state # "called") =>
    IF Len(call.arg.parent1) # Len(call.arg.parent2) \/ Len(call.arg.parent1) < 2
    THEN call.state = "raised"
    ELSE /\ call.state = "returned"
         /\ LET L == Len(call.arg.parent1)
                a == call.arg.parent1
                b == call.arg.parent2
                childA == call.value.children[1]
                childB == call.value.children[2]
            IN /\ Len(childA) = L /\ Len(childB) = L
               /\ \E p1, p2 \in 0..(L - 1) :
                    /\ p1 < p2
                    /\ \A i \in 1..L :
                         IF i > p1 /\ i <= p2
                         THEN childA[i] = b[i] /\ childB[i] = a[i]
                         ELSE childA[i] = a[i] /\ childB[i] = b[i]

\* two different parents of four bits were spliced into children that differ
\* from both parents
C24_Witness ==
  /\ call.op = "_crossover" /\ call.state = "returned"
  /\ Len(call.arg.parent1) = 4
  /\ call.value.children[1] # call.arg.parent1
  /\ call.value.children[1] # call.arg.parent2
  /\ call.value.children[2] # call.arg.parent1
  /\ call.value.children[2] # call.arg.parent2

\* C25: _mutate returns a new genome of the length of its input and leaves the
\* input list as it was; a bit of the result differs from the input only at a
\* position that was hit or next to one that was hit; and with mutation rate 0
\* the result equals the input.
C25_MutateChangesOnlyNearHits ==
  (call.op = "_mutate" /\ call.state = "returned") =>
    LET genome == call.arg.genome
        mutated == call.value.objects.mutated
        hit == { i \in 1..Len(genome) : call.value.draws[i].hit }
    IN /\ Len(mutated) = Len(genome)
       /\ call.value.objects.genome = genome
       /\ \A j \in 1..Len(genome) :
            mutated[j] # genome[j] => (j \in hit \/ j - 1 \in hit \/ j + 1 \in hit)
       /\ \A j \in 1..Len(genome) : mutated[j] \in {0, 1}
       /\ call.arg.mutation_rate = 0 => mutated = genome

\* a mutation hit one position and flipped it and both its neighbours, and left
\* the fourth bit and the input list alone
C25_Witness ==
  /\ call.op = "_mutate" /\ call.state = "returned" /\ Len(call.arg.genome) = 4
  /\ { i \in 1..4 : call.value.draws[i].hit } = {2}
  /\ { j \in 1..4 : call.value.objects.mutated[j] # call.arg.genome[j] } = {1, 2, 3}
  /\ call.value.objects.genome = call.arg.genome

\* ------------------------------------------- claims on the end of an episode
\* C26: the collision counter is 0 or 1 in every state reached through reset
\* and step; a running step that charges the collision penalty (-100) or pays
\* the parking bonus (+1000) ends the episode, and no running step leaves the
\* episode running with a collision counted or the car parked; so each of the
\* two is applied on at most one step of an episode, its last running step.
C26_PenaltyAndBonusOnLastStepOnly ==
  /\ [](current_state.collision_counter \in {0, 1})
  /\ [][RunningStep =>
          LET hit == current_state'.collision_counter > 0
              parked == CarIsParked'
          IN /\ ret'.reward = ClaimedReward
             /\ (hit \/ parked) => (episode_finished' /\ ret'.done)
             /\ hit => current_state.collision_counter = 0]_vars
  /\ [](~episode_finished =>
          /\ current_state.collision_counter = 0
          /\ ret.op = "step" => ~CarIsParked)

\* an episode ended on the step that charged the collision penalty, with
\* nothing gained on that step: -100 and the time penalty
C26_Witness ==
  /\ ret.op = "step" /\ ret.done /\ episode_finished
  /\ current_state.collision_counter = 1 /\ current_step > 1
  /\ ret.reward = Fin(-1001)

\* ------------------------------------------------- claims on the reward values
\* C27: every reward returned by step is a finite number, the first step
\* after a reset included (and so is every fitness summed from them).
C27_RewardsAreFinite ==
  /\ ret.op = "step" => IsFinite(ret.reward)
  /\ IsFinite(current_fitness)

\* ------------------------------------------------------------ claims on reset
\* C28: what reset returns and exposes does not depend on what went before:
\* for the obstacles registered, the observation is the one a reset straight
\* after construction returns (sensors read from the start position, the
\* distance to parking not yet measured, no collision, position (100, 300),
\* heading 0, speed 0), and the render snapshot taken right after it shows the
\* same and is_parked false.
C28_ResetForgetsHistory ==
  ret.op = "reset" =>
    /\ ret.state = GetState(initial_state, PosInf,
                            SensorInput(initial_state, custom_rectangles))
    /\ RenderData.distance_to_parking = PosInf
    /\ RenderData.ray_distances = SensorInput(initial_state, custom_rectangles)
    /\ RenderData.car_pos = << 100 * PosScale, 300 * PosScale >>
    /\ RenderData.rotation = 0
    /\ RenderData.collision_count = 0
    /\ ~RenderData.is_parked

\* --------------------------------------------- claims on evolve as a whole
\* C29: an evolve call that raises leaves the population and the generation
\* counter exactly as they were before the call; one that returns raises the
\* generation counter by exactly 1. Nothing of the GeneticAlgorithm changes
\* between the call and its end, and at a raise the population is the one of
\* the call, its lists holding what they held.
C29_RaiseLeavesPopulationAndGeneration ==
  /\ [][(call'.op = "evolve" /\ call' # call) =>
          IF call'.state = "returned"
          THEN ga'.generation = ga.generation + 1
          ELSE ga' = ga]_vars
  /\ []((call.op = "evolve" /\ call.state = "raised") =>
          /\ ga.population = evolve_frame.old_population
          /\ evolve_frame.old_objects = evolve_frame.old_population
          /\ ga.generation = 0)

\* evolve raised in its loop, the tournament being larger than the score
\* list, after the elite had been put into the new list
C29_Witness ==
  /\ call.op = "evolve" /\ call.state = "raised"
  /\ ga.tournament_size > Len(evolve_frame.fitness_scores)
  /\ Len(evolve_frame.new_population) = 1
  /\ ga.population = evolve_frame.old_population /\ ga.generation = 0

\* C30: after construction and after any number of evolve calls that returned,
\* each given one score per member, the population holds exactly
\* population_size genomes, each of exactly genome_length elements, each
\* element 0 or 1; and the lists of the population an evolve call was given
\* still hold what they held when it was called.
C30_PopulationKeepsItsShape ==
  /\ ga.made =>
       /\ Len(ga.population) = ga.population_size
       /\ \A i \in 1..Len(ga.population) :
            /\ Len(ga.population[i]) = ga.genome_length
            /\ \A j \in 1..Len(ga.population[i]) : ga.population[i][j] \in {0, 1}
  /\ evolve_frame.old_objects = evolve_frame.old_population

\* the second evolve call of a training has returned; it bred from two
\* different parents a child that differs from the member it replaced
C30_Witness ==
  /\ call.op = "evolve" /\ call.state = "returned" /\ ga.generation = 2
  /\ evolve_frame.old_population[1] # evolve_frame.old_population[2]
  /\ ga.population[2] # evolve_frame.old_population[2]
  /\ ga.population[2] # evolve_frame.old_population[1]
  /\ evolve_frame.old_objects = evolve_frame.old_population
====
